---- MODULE Spec2Model ----
(***************************************************************************)
(* Model of the iRobot Create serial driver: the packet framer             *)
(* (Robot.prototype._parseSerialData), the frame validator                 *)
(* (sensors.isValidSensorPacket), the sensor frame decoder                 *)
(* (sensors.parseSensorData / prettifySensorData) and the state-diff event *)
(* engine (Robot.prototype._handleSensorData and the _detect* methods).    *)
(*                                                                         *)
(* JavaScript arrays are 0-indexed; TLA+ sequences are 1-indexed.  The     *)
(* helpers AtIs and SliceJS keep the 0-indexed view of the source, so the    *)
(* index arithmetic of the model reads like the index arithmetic of the    *)
(* code.  A JavaScript value that may be undefined is modelled as a        *)
(* sequence of length 0 (undefined) or 1 (the value).                      *)
(***************************************************************************)
EXTENDS Integers, Sequences, FiniteSets, TLC

VARIABLES
  buffer,      \* this._buffer: bytes received and not yet framed
  sensorData,  \* this._sensorData: the previous snapshot, or Null
  scanned,     \* the buffer as scanned by the last feed (old buffer + chunk)
  decoded,     \* payloads handed to parseSensorData by the last feed
  events,      \* events emitted on the robot by the last feed, in order
  thrown,      \* TRUE when the last feed ended with an uncaught exception
  before,      \* this._sensorData as it was when the last feed began
               \* (the four observations above start afresh when new bytes
               \* are put on the serial line)
  pending,     \* bytes of the serial line not yet delivered to the parser
  lead,        \* the bytes put on the serial line in front of the frame
  frame,       \* the frame last put on the serial line
  got,         \* payloads extracted since the frame was put on the line
  arg,         \* the argument of the utility function under study
  ret,         \* what the utility function returned for arg, or Undefined
  written,     \* the buffers the last step wrote to the serial port, in order
  ledState,    \* this._ledState
  timers,      \* the setTimeout callbacks of sing() that have not run yet
  readyListeners, \* the once-listeners of the serial port's 'sensordata'
                  \* that emit 'ready' (one is added by every _init)
  port         \* this.serial: "closed" or "open"

vars == <<buffer, sensorData, scanned, decoded, events, thrown, before,
          pending, lead, frame, got, arg, ret, written, ledState, timers,
          readyListeners, port>>

\* ------------------------------------------------------------------ bounds
MaxBuf == 7
MaxChunk == 4
MaxPayload == 6
StreamChunk == 12
MaxBacklog == 31
MaxWalk == 5
MaxNodes == 5
MaxOpens == 2
MaxNotes == 34
MaxPending == 6

\* the byte values fed to the framer as arbitrary serial input
NoiseBytes == {0, 1, 19, 236, 237}

\* the byte values of the payloads of the frame experiments
PayloadBytes == {0, 7, 19, 237}

\* --------------------------------------------------------- JavaScript views
Min(a, b) == IF a < b THEN a ELSE b

\* arr.slice(a, b) for 0 <= a and 0 <= b
SliceJS(arr, a, b) == SubSeq(arr, a + 1, Min(b, Len(arr)))

\* arr[i] === v for a 0-based index i (false when arr[i] is undefined)
AtIs(arr, i, v) == i >= 0 /\ i < Len(arr) /\ arr[i + 1] = v

RECURSIVE SeqsUpTo(_, _)
SeqsUpTo(S, n) ==
  IF n = 0 THEN {<<>>}
  ELSE LET shorter == SeqsUpTo(S, n - 1)
       IN shorter \union {Append(s, b) : s \in {t \in shorter : Len(t) = n - 1}, b \in S}

\* ------------------------------------------------------------ frame format
PACKET_HEADER == 19

\* the summing loop of isValidSensorPacket: for (i = length - 1; i >= 0; i--),
\* whose running sum is a number at the head of every round
RECURSIVE ChecksumLoop(_, _, _)
ChecksumLoop(packet, i, checksum) ==
  CASE i < 0 -> checksum
    [] i >= 0 /\ checksum \in Nat ->
         ChecksumLoop(packet, i - 1, checksum + packet[i + 1])

\* isValidSensorPacket without its length check
isValidSensorPacket_NoLengthCheck(packet) ==
  IF ~ AtIs(packet, 0, PACKET_HEADER) THEN FALSE
  ELSE ChecksumLoop(packet, Len(packet) - 1, 0) % 256 = 0

\* isValidSensorPacket with a length byte that counts the checksum
isValidSensorPacket_LengthCountsChecksum(packet) ==
  IF ~ AtIs(packet, 0, PACKET_HEADER) THEN FALSE
  ELSE IF Len(packet) < 2 \/ packet[2] + 2 # Len(packet) THEN FALSE
  ELSE ChecksumLoop(packet, Len(packet) - 1, 0) % 256 = 0

isValidSensorPacket(packet) ==
  IF ~ AtIs(packet, 0, PACKET_HEADER) THEN FALSE
  ELSE IF Len(packet) < 2 \/ packet[2] + 3 # Len(packet) THEN FALSE
  ELSE ChecksumLoop(packet, Len(packet) - 1, 0) % 256 = 0

\* ------------------------------------------------------------------ framer
\* buffer.slice(i, endIndex) of _parseSerialData, where endIndex is
\* i + buffer[i + 1] + 3, and NaN (an empty slice) when buffer[i + 1] is
\* undefined
EndIndex(buf, i) == i + buf[i + 2] + 3

CandidateAt(buf, i) ==
  IF i + 1 >= Len(buf) THEN <<>>
  ELSE SliceJS(buf, i, EndIndex(buf, i))

\* packet.slice(2): the checksum stays on the payload
StripPacket_KeepChecksum(packet) == SliceJS(packet, 2, Len(packet))

\* packet.slice(2, -1)
StripPacket(packet) == SliceJS(packet, 2, Len(packet) - 1)

\* buffer.splice(0, endIndex): what stays in the buffer
SpliceRest(buf, endIndex) == SubSeq(buf, endIndex + 1, Len(buf))

\* ------------------------------------------------------------ byte utilities
Undefined == <<>>
Def(v) == <<v>>

\* a JavaScript boolean or number with its numeric value +v
JsBool(b) == [type |-> "boolean", n |-> IF b THEN 1 ELSE 0]
JsNum(n) == [type |-> "number", n |-> n]

\* the LED state, the timers and the listeners as the constructor leaves
\* them, nothing written to the serial port
robotVars == <<written, ledState, timers, readyListeners, port>>

RobotIdle ==
  /\ written = <<>>
  /\ ledState = [play |-> JsBool(FALSE), advance |-> JsBool(FALSE),
                 power_intensity |-> 0, power_color |-> 0]
  /\ timers = <<>>
  /\ readyListeners = 0
  /\ port = "closed"

\* bytes[0] of a Buffer, undefined when the buffer is empty
First(bytes) == IF Len(bytes) > 0 THEN Def(bytes[1]) ELSE Undefined

Pow2(k) == IF k = 0 THEN 1 ELSE IF k = 1 THEN 2 ELSE IF k = 2 THEN 4
           ELSE IF k = 3 THEN 8 ELSE IF k = 4 THEN 16 ELSE IF k = 5 THEN 32
           ELSE IF k = 6 THEN 64 ELSE 128

\* byteToBits listing the bits from the high one to the low one
byteToBits_MsbFirst(b) ==
  [k \in 0..7 |-> IF b = Undefined THEN FALSE ELSE (b[1] \div Pow2(7 - k)) % 2 = 1]

\* misc.byteToBits: !!((b & 2^k) >> k) for k = 0..7; b is a byte or
\* undefined, and undefined & m is 0
byteToBits(b) ==
  [k \in 0..7 |-> IF b = Undefined THEN FALSE ELSE (b[1] \div Pow2(k)) % 2 = 1]

\* a ^ b on non-negative integers, bit by bit
RECURSIVE BitXor(_, _)
BitXor(a, b) ==
  IF a = 0 /\ b = 0 THEN 0
  ELSE (((a % 2) + (b % 2)) % 2) + 2 * BitXor(a \div 2, b \div 2)

\* the entry at index k shifted to bit 7 - k
ShiftedBit_MsbFirst(bits, k) ==
  IF k \in DOMAIN bits /\ bits[k] THEN Pow2(7 - k) ELSE 0

\* !!bits[k] << k; bits[k] is undefined past the end of the array
ShiftedBit(bits, k) ==
  IF k \in DOMAIN bits /\ bits[k] THEN Pow2(k) ELSE 0

\* misc.bitsToByte: b = b ^ (!!bits[k] << k) for k = 0..7, from b = 0
RECURSIVE BitsToByteFrom(_, _, _)
BitsToByteFrom(bits, k, b) ==
  IF k > 7 THEN b
  ELSE BitsToByteFrom(bits, k + 1, BitXor(b, ShiftedBit(bits, k)))

bitsToByte(bits) == BitsToByteFrom(bits, 0, 0)

\* misc.byteToBool: !!(bytes[0])
byteToBool(bytes) == Len(bytes) > 0 /\ bytes[1] # 0

\* bufferToInt reading two bytes low byte first (readUInt16LE, readInt16LE)
bufferToInt_LittleEndian(bytes, signed) ==
  LET u == IF Len(bytes) = 1 THEN bytes[1] ELSE bytes[1] + 256 * bytes[2]
      half == IF Len(bytes) = 1 THEN 128 ELSE 32768
  IN IF signed /\ u >= half THEN u - 2 * half ELSE u

\* misc.bufferToInt on a Buffer of 1 or 2 bytes (readUInt8, readInt8,
\* readUInt16BE, readInt16BE); a Buffer of 0 bytes has no method 'readUInt0'
\* and the call throws a TypeError, see BufferToIntThrows
bufferToInt(bytes, signed) ==
  LET u == IF Len(bytes) = 1 THEN bytes[1] ELSE 256 * bytes[1] + bytes[2]
      half == IF Len(bytes) = 1 THEN 128 ELSE 32768
  IN IF signed /\ u >= half THEN u - 2 * half ELSE u

BufferToIntThrows(bytes) == Len(bytes) = 0

\* --------------------------------------------------------- schema registry
\* the Packet objects of sensors.js, sorted by id (ALL_SENSOR_PACKETS)
ALL_SENSOR_PACKETS == <<
  [name |-> "bump_and_wheel_drop", id |-> 7, bytes |-> 1],
  [name |-> "wall", id |-> 8, bytes |-> 1],
  [name |-> "cliff_left", id |-> 9, bytes |-> 1],
  [name |-> "cliff_front_left", id |-> 10, bytes |-> 1],
  [name |-> "cliff_front_right", id |-> 11, bytes |-> 1],
  [name |-> "cliff_right", id |-> 12, bytes |-> 1],
  [name |-> "virtual_wall", id |-> 13, bytes |-> 1],
  [name |-> "low_side_driver_and_wheel_overcurrents", id |-> 14, bytes |-> 1],
  [name |-> "infrared_byte", id |-> 17, bytes |-> 1],
  [name |-> "buttons", id |-> 18, bytes |-> 1],
  [name |-> "distance", id |-> 19, bytes |-> 2],
  [name |-> "angle", id |-> 20, bytes |-> 2],
  [name |-> "charging_state", id |-> 21, bytes |-> 1],
  [name |-> "voltage", id |-> 22, bytes |-> 2],
  [name |-> "current", id |-> 23, bytes |-> 2],
  [name |-> "battery_temperature", id |-> 24, bytes |-> 1],
  [name |-> "battery_charge", id |-> 25, bytes |-> 2],
  [name |-> "battery_capacity", id |-> 26, bytes |-> 2],
  [name |-> "wall_signal", id |-> 27, bytes |-> 2],
  [name |-> "cliff_left_signal", id |-> 28, bytes |-> 2],
  [name |-> "cliff_front_left_signal", id |-> 29, bytes |-> 2],
  [name |-> "cliff_front_right_signal", id |-> 30, bytes |-> 2],
  [name |-> "cliff_right_signal", id |-> 31, bytes |-> 2],
  [name |-> "cargo_bay_digital_inputs", id |-> 32, bytes |-> 1],
  [name |-> "cargo_bay_analog_signal", id |-> 33, bytes |-> 2],
  [name |-> "charging_sources_available", id |-> 34, bytes |-> 1],
  [name |-> "oi_mode", id |-> 35, bytes |-> 1],
  [name |-> "song_number", id |-> 36, bytes |-> 1],
  [name |-> "song_playing", id |-> 37, bytes |-> 1],
  [name |-> "number_stream_packets", id |-> 38, bytes |-> 1],
  [name |-> "requested_velocity", id |-> 39, bytes |-> 2],
  [name |-> "requested_radius", id |-> 40, bytes |-> 2],
  [name |-> "requested_right_velocity", id |-> 41, bytes |-> 2],
  [name |-> "requested_left_velocity", id |-> 42, bytes |-> 2] >>

\* the map filled by _.each(ALL_SENSOR_PACKETS, ...): a later packet with
\* the same id would overwrite an earlier one
SENSOR_PACKETS_BY_ID ==
  [id \in {ALL_SENSOR_PACKETS[k].id : k \in DOMAIN ALL_SENSOR_PACKETS} |->
     LET last == CHOOSE k \in DOMAIN ALL_SENSOR_PACKETS :
                   /\ ALL_SENSOR_PACKETS[k].id = id
                   /\ \A j \in DOMAIN ALL_SENSOR_PACKETS :
                        ALL_SENSOR_PACKETS[j].id = id => j <= k
     IN ALL_SENSOR_PACKETS[last]]

\* a lookup by position in the sorted array instead of by id
getById_ByPosition(id) ==
  IF id + 1 \in DOMAIN ALL_SENSOR_PACKETS THEN Def(ALL_SENSOR_PACKETS[id + 1])
  ELSE Undefined

\* sensors.getById: the packet, or null (Undefined) when there is none
getById(id) ==
  IF id \in DOMAIN SENSOR_PACKETS_BY_ID THEN Def(SENSOR_PACKETS_BY_ID[id])
  ELSE Undefined

\* ids whose parser calls misc.bufferToInt, and whether it reads signed
IntIds == {19, 20, 22, 23, 24, 25, 26, 27, 28, 29, 30, 31, 33, 36, 38,
           39, 40, 41, 42}
SignedIds == {19, 20, 23, 24, 39, 40, 41, 42}
MagnitudeIds == {27, 28, 29, 30, 31}
BoolIds == {8, 9, 10, 11, 12, 13, 37}

\* Packet.prototype.parse for each packet of the registry
ParseThrows(id, bytes) == id \in IntIds /\ BufferToIntThrows(bytes)

ParsePacket(id, bytes) ==
  LET bits == byteToBits(First(bytes))
      b == First(bytes)
  IN CASE id = 7 ->
            [bump |-> [left |-> bits[1], right |-> bits[0]],
             wheel_drop |-> [caster |-> bits[4], left |-> bits[3],
                             right |-> bits[2]]]
       [] id \in BoolIds -> byteToBool(bytes)
       [] id = 14 ->
            [wheel |-> [left |-> bits[4], right |-> bits[3]],
             low_side_drivers |-> <<bits[1], bits[0], bits[2]>>]
       [] id = 17 -> [receiving |-> b # Def(255), value |-> b]
       [] id = 18 -> [advance |-> bits[2], play |-> bits[0]]
       [] id = 21 ->
            [not_charging |-> b = Def(0),
             reconditioning_charging |-> b = Def(1),
             full_charging |-> b = Def(2),
             trickle_charging |-> b = Def(3),
             waiting |-> b = Def(4),
             charging_fault_condition |-> b = Def(5)]
       [] id = 32 ->
            [device_detect_baudrate_change |-> bits[4],
             digital_inputs |-> <<bits[0], bits[1], bits[2], bits[3]>>]
       [] id = 34 -> [home_base |-> bits[1], internal_charger |-> bits[0]]
       [] id = 35 ->
            [off |-> b = Def(0), passive |-> b = Def(1),
             safe |-> b = Def(2), full |-> b = Def(3)]
       [] id \in MagnitudeIds ->
            [min |-> 0, max |-> 4095, range |-> 4095 - 0,
             raw |-> bufferToInt(bytes, FALSE)]
       [] id = 33 ->
            [min_volts |-> 0, max_volts |-> 5, max_raw |-> 1023,
             raw |-> bufferToInt(bytes, FALSE)]
       [] id = 19 -> [millimeters |-> bufferToInt(bytes, TRUE)]
       [] id = 20 -> [degrees_ccw |-> bufferToInt(bytes, TRUE)]
       [] id = 22 -> [millivolts |-> bufferToInt(bytes, FALSE)]
       [] id = 23 -> [milliamps |-> bufferToInt(bytes, TRUE)]
       [] id = 24 -> [celsius |-> bufferToInt(bytes, TRUE)]
       [] id \in {25, 26} -> [milliamp_hours |-> bufferToInt(bytes, FALSE)]
       [] OTHER -> bufferToInt(bytes, id \in SignedIds)

\* ----------------------------------------------------- sensor frame decoder
\* the flat field map rawSensorData is a function from the ids of the
\* packets read to their parsed values (the packet name is the name of the
\* registry entry of that id)
Has(raw, id) == id \in DOMAIN raw
Opt(raw, id) == IF Has(raw, id) THEN Def(raw[id]) ELSE Undefined
Put(raw, id, v) == (id :> v) @@ raw
EmptyRaw == [k \in {} |-> 0]

\* the packets whose fields prettifySensorData dereferences: when one of
\* them is missing from the flat map, reading a property of undefined
\* throws a TypeError
PrettifyRequired == {7, 14, 17, 18, 21, 22, 23, 24, 25, 26, 32}

PrettifyThrows(raw) == \E id \in PrettifyRequired : ~ Has(raw, id)

\* prettifySensorData; the leaves that are quotients of two stored numbers
\* (volts, amps, fahrenheit, percent, magnitude) are determined by the
\* integer leaves kept here
prettifySensorData(raw) ==
  LET bw == raw[7]
      oc == raw[14]
      ib == raw[17]
  IN [wheels |->
        [right |-> [dropped |-> Def(bw.wheel_drop.right),
                    overcurrent |-> Def(oc.wheel.right)],
         left |-> [dropped |-> Def(bw.wheel_drop.left),
                   overcurrent |-> Def(oc.wheel.left)],
         caster |-> [dropped |-> Def(bw.wheel_drop.caster)]],
      low_side_drivers |->
        [k \in 1..3 |-> [overcurrent |-> Def(oc.low_side_drivers[k])]],
      bumpers |->
        [left |-> [activated |-> Def(bw.bump.left)],
         right |-> [activated |-> Def(bw.bump.right)],
         both |-> [activated |-> Def(bw.bump.right /\ bw.bump.left)]],
      cliff_sensors |->
        [left |-> [detecting |-> Opt(raw, 9), signal |-> Opt(raw, 28)],
         front_left |-> [detecting |-> Opt(raw, 10), signal |-> Opt(raw, 29)],
         front_right |-> [detecting |-> Opt(raw, 11), signal |-> Opt(raw, 30)],
         right |-> [detecting |-> Opt(raw, 12), signal |-> Opt(raw, 31)]],
      wall_sensor |-> [detecting |-> Opt(raw, 8), signal |-> Opt(raw, 27)],
      virtual_wall_sensor |-> [detecting |-> Opt(raw, 13)],
      ir |-> [receiving |-> Def(ib.receiving),
              received_value |-> IF ib.receiving THEN ib.value ELSE Undefined],
      buttons |-> [advance |-> [pressed |-> Def(raw[18].advance)],
                   play |-> [pressed |-> Def(raw[18].play)]],
      battery |->
        [charging |-> [recharging |-> ~ raw[21].not_charging,
                       from |-> Opt(raw, 34),
                       type |-> raw[21]],
         voltage |-> raw[22],
         current |-> raw[23],
         temperature |-> raw[24],
         capacity |-> [current |-> raw[25], max |-> raw[26]]],
      cargo_bay |->
        [device_detected |-> raw[32].device_detect_baudrate_change,
         baudrate_change_requested |-> raw[32].device_detect_baudrate_change,
         digital_input |-> raw[32].digital_inputs,
         analog_signal |-> Opt(raw, 33)],
      song |-> [playing |-> Opt(raw, 37), number |-> Opt(raw, 36)],
      state |->
        [mode |-> Opt(raw, 35),
         distance |-> Opt(raw, 19),
         angle |-> Opt(raw, 20),
         requested_velocity |-> Opt(raw, 39),
         requested_radius |-> Opt(raw, 40),
         requested_right_velocity |-> Opt(raw, 41),
         requested_left_velocity |-> Opt(raw, 42)]]

\* the result of a call that may throw
Threw(e) == [threw |-> TRUE, error |-> e]
Returned(v) == [threw |-> FALSE, value |-> v]

\* the loop of parseSensorData stepping over an id it does not know
RECURSIVE ParseLoop_SkipUnknown(_, _, _)
ParseLoop_SkipUnknown(data, i, raw) ==
  LET packetId == data[i + 1]
      packetInfo == getById(packetId)
      dataIndex == i + 1
      bytes == SliceJS(data, dataIndex, dataIndex + packetInfo[1].bytes)
      assigned == Put(raw, packetId, ParsePacket(packetId, bytes))
  IN CASE ~ (i < Len(data)) -> Returned(raw)
       [] i < Len(data) /\ packetInfo = Undefined -> ParseLoop_SkipUnknown(data, i + 1, raw)
       [] /\ i < Len(data)
          /\ packetInfo # Undefined
          /\ ParseThrows(packetId, bytes) -> Threw("TypeError")
       [] /\ i < Len(data)
          /\ packetInfo # Undefined
          /\ ~ ParseThrows(packetId, bytes)
          /\ Has(assigned, packetId) ->
            ParseLoop_SkipUnknown(data, i + packetInfo[1].bytes + 1, assigned)

\* the loop of parseSensorData:
\*   for (i = 0, length = data.length; (packetId = data[i]), i < length; i++)
\* whose body stores the parsed value under the packet's entry of
\* rawSensorData and ends with i += packetInfo.bytes
RECURSIVE ParseLoop(_, _, _)
ParseLoop(data, i, raw) ==
  LET packetId == data[i + 1]
      packetInfo == getById(packetId)
      dataIndex == i + 1
      bytes == SliceJS(data, dataIndex, dataIndex + packetInfo[1].bytes)
      assigned == Put(raw, packetId, ParsePacket(packetId, bytes))
  IN CASE ~ (i < Len(data)) -> Returned(raw)
       [] i < Len(data) /\ packetInfo = Undefined -> Threw("unrecognized packet id")
       [] /\ i < Len(data)
          /\ packetInfo # Undefined
          /\ ParseThrows(packetId, bytes) -> Threw("TypeError")
       [] /\ i < Len(data)
          /\ packetInfo # Undefined
          /\ ~ ParseThrows(packetId, bytes)
          /\ Has(assigned, packetId) ->
            ParseLoop(data, i + packetInfo[1].bytes + 1, assigned)

\* the end of parseSensorData: return prettifySensorData(rawSensorData)
Prettified(walked) ==
  IF walked.threw THEN walked
  ELSE IF PrettifyThrows(walked.value) THEN Threw("TypeError")
  ELSE Returned(prettifySensorData(walked.value))

parseSensorData(data) == Prettified(ParseLoop(data, 0, EmptyRaw))

\* ------------------------------------------------- state-diff event engine
Event(name, data) == [name |-> name, data |-> data]

ModeKeys == {"state.mode.off", "state.mode.passive", "state.mode.safe",
             "state.mode.full"}

\* the key walk of misc.compare: obj[k1][k2]... ; the only object on a
\* watched path that can be undefined is state.mode (no oi_mode packet in
\* the frame), and reading a property of it throws a TypeError
WalkThrows(obj, keyString) == keyString \in ModeKeys /\ obj.state.mode = Undefined

Walk(obj, keyString) ==
  CASE keyString = "wheels.right.dropped" -> obj.wheels.right.dropped
    [] keyString = "wheels.left.dropped" -> obj.wheels.left.dropped
    [] keyString = "wheels.caster.dropped" -> obj.wheels.caster.dropped
    [] keyString = "bumpers.right.activated" -> obj.bumpers.right.activated
    [] keyString = "bumpers.left.activated" -> obj.bumpers.left.activated
    [] keyString = "cliff_sensors.left.detecting" -> obj.cliff_sensors.left.detecting
    [] keyString = "cliff_sensors.front_left.detecting" -> obj.cliff_sensors.front_left.detecting
    [] keyString = "cliff_sensors.front_right.detecting" -> obj.cliff_sensors.front_right.detecting
    [] keyString = "cliff_sensors.right.detecting" -> obj.cliff_sensors.right.detecting
    [] keyString = "wall_sensor.detecting" -> obj.wall_sensor.detecting
    [] keyString = "virtual_wall_sensor.detecting" -> obj.virtual_wall_sensor.detecting
    [] keyString = "ir.receiving" -> obj.ir.receiving
    [] keyString = "buttons.advance.pressed" -> obj.buttons.advance.pressed
    [] keyString = "buttons.play.pressed" -> obj.buttons.play.pressed
    [] keyString = "state.mode.off" -> Def(obj.state.mode[1].off)
    [] keyString = "state.mode.passive" -> Def(obj.state.mode[1].passive)
    [] keyString = "state.mode.safe" -> Def(obj.state.mode[1].safe)
    [] keyString = "state.mode.full" -> Def(obj.state.mode[1].full)
    [] keyString = "wheels.left.overcurrent" -> obj.wheels.left.overcurrent
    [] keyString = "wheels.right.overcurrent" -> obj.wheels.right.overcurrent
    [] keyString = "low_side_drivers.0.overcurrent" -> obj.low_side_drivers[1].overcurrent
    [] keyString = "low_side_drivers.1.overcurrent" -> obj.low_side_drivers[2].overcurrent
    [] keyString = "low_side_drivers.2.overcurrent" -> obj.low_side_drivers[3].overcurrent

compareThrows(prevObj, curObj, keyString) ==
  WalkThrows(prevObj, keyString) \/ WalkThrows(curObj, keyString)

\* misc.compare without its callback: the result object
CompareResult(keyString, prevVal, curVal) ==
  [key |-> keyString, changed |-> curVal # prevVal, value |-> curVal]

compare(prevObj, curObj, keyString) ==
  CompareResult(keyString, Walk(prevObj, keyString), Walk(curObj, keyString))

\* JavaScript truthiness of a leaf that is a boolean or undefined
Truthy(v) == v = Def(TRUE)

\* the events emitted by _emitValueChange(keyName, true, ...): the callback
\* runs when the value changed and emits when the new value equals true
ValueChangeCallback(cmp, eventName, eventData) ==
  IF cmp.changed /\ cmp.value = Def(TRUE)
  THEN <<Event(eventName, eventData)>> ELSE <<>>

emitValueChange(keyName, oldSensorData, newSensorData, eventName, eventData) ==
  ValueChangeCallback(compare(oldSensorData, newSensorData, keyName),
                      eventName, eventData)

\* cmp.changed && cmp.value, the test the detectors make on a comparison
ChangedAndSet(cmp) == cmp.changed /\ Truthy(cmp.value)

Fired(keyName, oldSensorData, newSensorData) ==
  ChangedAndSet(compare(oldSensorData, newSensorData, keyName))

\* every _detect* operator yields the events it emits, in order, and
\* whether its return value is truthy
Detected(evts, result) == [events |-> evts, result |-> result]

\* the end of a detector: the overall event is emitted with data when one
\* of the comparisons changed to a set value, and the detector returns data
\* (truthy) or null
Overall(evts, any, eventName, data) ==
  Detected(evts \o (IF any THEN <<Event(eventName, data)>> ELSE <<>>), any)

detectWheelDrop(old, new) ==
  Overall(
    emitValueChange("wheels.right.dropped", old, new, "wheeldrop:right", Undefined)
    \o emitValueChange("wheels.left.dropped", old, new, "wheeldrop:left", Undefined)
    \o emitValueChange("wheels.caster.dropped", old, new, "wheeldrop:caster", Undefined),
    \/ Fired("wheels.right.dropped", old, new)
    \/ Fired("wheels.left.dropped", old, new)
    \/ Fired("wheels.caster.dropped", old, new),
    "wheeldrop",
    [right |-> new.wheels.right.dropped,
     left |-> new.wheels.left.dropped,
     caster |-> new.wheels.caster.dropped])

\* the end of _detectBump with 'both' set only when both bumpers changed to
\* active in this pass
BumpOverall_BothDiffed(evts, any, right, left) ==
  Detected(
    evts
    \o (IF any /\ Len(evts) = 2
        THEN <<Event("bump:both", Undefined)>> ELSE <<>>)
    \o (IF any
        THEN <<Event("bump", [right |-> right, left |-> left,
                              both |-> Def(Len(evts) = 2)])>>
        ELSE <<>>),
    any)

\* the end of _detectBump: 'bump:both' comes before 'bump' when both
\* bumpers are active
BumpOverall(evts, any, right, left) ==
  Detected(
    evts
    \o (IF any /\ Truthy(left) /\ Truthy(right)
        THEN <<Event("bump:both", Undefined)>> ELSE <<>>)
    \o (IF any
        THEN <<Event("bump", [right |-> right, left |-> left,
                              both |-> Def(Truthy(right) /\ Truthy(left))])>>
        ELSE <<>>),
    any)

detectBump(old, new) ==
  BumpOverall(
    emitValueChange("bumpers.right.activated", old, new, "bump:right", Undefined)
    \o emitValueChange("bumpers.left.activated", old, new, "bump:left", Undefined),
    \/ Fired("bumpers.right.activated", old, new)
    \/ Fired("bumpers.left.activated", old, new),
    new.bumpers.right.activated,
    new.bumpers.left.activated)

detectCliff(old, new) ==
  Overall(
    emitValueChange("cliff_sensors.left.detecting", old, new, "cliff:left",
                    [signal |-> new.cliff_sensors.left.signal])
    \o emitValueChange("cliff_sensors.front_left.detecting", old, new,
                       "cliff:front_left",
                       [signal |-> new.cliff_sensors.front_left.signal])
    \o emitValueChange("cliff_sensors.front_right.detecting", old, new,
                       "cliff:front_right",
                       [signal |-> new.cliff_sensors.front_right.signal])
    \o emitValueChange("cliff_sensors.right.detecting", old, new, "cliff:right",
                       [signal |-> new.cliff_sensors.right.signal]),
    \/ Fired("cliff_sensors.left.detecting", old, new)
    \/ Fired("cliff_sensors.front_left.detecting", old, new)
    \/ Fired("cliff_sensors.front_right.detecting", old, new)
    \/ Fired("cliff_sensors.right.detecting", old, new),
    "cliff",
    new.cliff_sensors)

detectWall(old, new) ==
  Detected(emitValueChange("wall_sensor.detecting", old, new, "wall",
                           [signal |-> new.wall_sensor.signal]),
           Fired("wall_sensor.detecting", old, new))

detectVirtualWall(old, new) ==
  Detected(emitValueChange("virtual_wall_sensor.detecting", old, new,
                           "virtualwall", Undefined),
           Fired("virtual_wall_sensor.detecting", old, new))

detectIR(old, new) ==
  Detected(emitValueChange("ir.receiving", old, new, "ir",
                           [value |-> new.ir.received_value]),
           Fired("ir.receiving", old, new))

detectButton(old, new) ==
  Overall(
    emitValueChange("buttons.advance.pressed", old, new, "button:advance", Undefined)
    \o emitValueChange("buttons.play.pressed", old, new, "button:play", Undefined),
    \/ Fired("buttons.advance.pressed", old, new)
    \/ Fired("buttons.play.pressed", old, new),
    "button",
    [advance |-> new.buttons.advance.pressed,
     play |-> new.buttons.play.pressed])

\* the first compare of _detectMode throws when state.mode is undefined in
\* either snapshot
detectModeThrows(old, new) == compareThrows(old, new, "state.mode.off")

\* _detectMode without its 'mode' event
detectMode_NoAggregate(old, new) ==
  Detected(
    emitValueChange("state.mode.off", old, new, "mode:off", Undefined)
    \o emitValueChange("state.mode.passive", old, new, "mode:passive", Undefined)
    \o emitValueChange("state.mode.safe", old, new, "mode:safe", Undefined)
    \o emitValueChange("state.mode.full", old, new, "mode:full", Undefined),
    \/ Fired("state.mode.off", old, new)
    \/ Fired("state.mode.passive", old, new)
    \/ Fired("state.mode.safe", old, new)
    \/ Fired("state.mode.full", old, new))

detectMode(old, new) ==
  Overall(
    emitValueChange("state.mode.off", old, new, "mode:off", Undefined)
    \o emitValueChange("state.mode.passive", old, new, "mode:passive", Undefined)
    \o emitValueChange("state.mode.safe", old, new, "mode:safe", Undefined)
    \o emitValueChange("state.mode.full", old, new, "mode:full", Undefined),
    \/ Fired("state.mode.off", old, new)
    \/ Fired("state.mode.passive", old, new)
    \/ Fired("state.mode.safe", old, new)
    \/ Fired("state.mode.full", old, new),
    "mode",
    new.state.mode[1])

detectOvercurrent(old, new) ==
  Overall(
    emitValueChange("wheels.left.overcurrent", old, new,
                    "overcurrent:wheel:left", Undefined)
    \o emitValueChange("wheels.right.overcurrent", old, new,
                       "overcurrent:wheel:right", Undefined)
    \o emitValueChange("low_side_drivers.0.overcurrent", old, new,
                       "overcurrent:lowsidedriver:0", Undefined)
    \o emitValueChange("low_side_drivers.1.overcurrent", old, new,
                       "overcurrent:lowsidedriver:1", Undefined)
    \o emitValueChange("low_side_drivers.2.overcurrent", old, new,
                       "overcurrent:lowsidedriver:2", Undefined),
    \/ Fired("wheels.left.overcurrent", old, new)
    \/ Fired("wheels.right.overcurrent", old, new)
    \/ Fired("low_side_drivers.0.overcurrent", old, new)
    \/ Fired("low_side_drivers.1.overcurrent", old, new)
    \/ Fired("low_side_drivers.2.overcurrent", old, new),
    "overcurrent",
    [wheels |-> [left |-> new.wheels.left.overcurrent,
                 right |-> new.wheels.right.overcurrent],
     low_side_drivers |-> <<new.low_side_drivers[1].overcurrent,
                            new.low_side_drivers[2].overcurrent,
                            new.low_side_drivers[3].overcurrent>>])

Null == Undefined

\* the events the calls of emitFunctions emitted, in call order
RECURSIVE EventsOf(_)
EventsOf(emittedEvents) ==
  IF emittedEvents = <<>> THEN <<>>
  ELSE Head(emittedEvents).events \o EventsOf(Tail(emittedEvents))

\* the end of _handleSensorData once every emitFunction has returned:
\* 'change' when _.any(emittedEvents), then the snapshot is stored
ChangeEvent(emittedEvents, newSensorData) ==
  [threw |-> FALSE,
   events |-> EventsOf(emittedEvents)
              \o (IF \E k \in DOMAIN emittedEvents : emittedEvents[k].result
                  THEN <<Event("change", Undefined)>> ELSE <<>>),
   sensorData |-> Def(newSensorData)]

\* the body of "if (this._sensorData)" of _handleSensorData with
\* old = this._sensorData: the events emitted, the new value of
\* this._sensorData, and whether the pass threw (then this._sensorData keeps
\* its value and the events emitted before the throw stay emitted)
ComparisonPass(old, newSensorData) ==
  IF detectModeThrows(old, newSensorData)
  THEN [threw |-> TRUE,
        events |-> EventsOf(<<detectBump(old, newSensorData),
                              detectButton(old, newSensorData),
                              detectCliff(old, newSensorData),
                              detectIR(old, newSensorData)>>),
        sensorData |-> Def(old)]
  ELSE ChangeEvent(<<detectBump(old, newSensorData),
                     detectButton(old, newSensorData),
                     detectCliff(old, newSensorData),
                     detectIR(old, newSensorData),
                     detectMode(old, newSensorData),
                     detectOvercurrent(old, newSensorData),
                     detectVirtualWall(old, newSensorData),
                     detectWall(old, newSensorData),
                     detectWheelDrop(old, newSensorData)>>,
                   newSensorData)

\* _handleSensorData emitting 'change' for the first snapshot
handleSensorData_ChangeOnFirst(stored, newSensorData) ==
  IF stored = Null
  THEN ChangeEvent(<<Detected(<<>>, TRUE)>>, newSensorData)
  ELSE ComparisonPass(stored[1], newSensorData)

\* _handleSensorData(newSensorData) with this._sensorData = stored: without
\* a stored snapshot nothing is compared and the snapshot is stored
handleSensorData(stored, newSensorData) ==
  IF stored = Null
  THEN [threw |-> FALSE, events |-> <<>>, sensorData |-> Def(newSensorData)]
  ELSE ComparisonPass(stored[1], newSensorData)

\* ------------------------------------------------------- _parseSerialData
\* the try block with both emits of 'sensordata' reaching the robot's
\* listeners
EmitSensorData_Twice(parsedData, handled) ==
  IF handled.threw
  THEN [threw |-> TRUE, events |-> handled.events,
        sensorData |-> handled.sensorData, error |-> "TypeError"]
  ELSE [threw |-> FALSE,
        events |-> <<Event("sensordata", parsedData)>>
                   \o Append(handled.events, Event("sensordata", parsedData)),
        sensorData |-> handled.sensorData, error |-> "none"]

\* the try block after emitter.emit('sensordata') ran _handleSensorData:
\* its throw leaves the block, else this.emit('sensordata') follows
EmitSensorData(parsedData, handled) ==
  IF handled.threw
  THEN [threw |-> TRUE, events |-> handled.events,
        sensorData |-> handled.sensorData, error |-> "TypeError"]
  ELSE [threw |-> FALSE,
        events |-> Append(handled.events, Event("sensordata", parsedData)),
        sensorData |-> handled.sensorData, error |-> "none"]

\* the try block after var parsedData = sensors.parseSensorData(packet)
TryParsed(parsed, stored) ==
  IF parsed.threw
  THEN [threw |-> TRUE, events |-> <<>>, sensorData |-> stored,
        error |-> parsed.error]
  ELSE EmitSensorData(parsed.value, handleSensorData(stored, parsed.value))

\* the try block without its catch: the error leaves the parser
CatchClause_Rethrows(packet, body) ==
  [threw |-> body.threw, events |-> body.events,
   sensorData |-> body.sensorData]

\* the catch clause: this.emit('badpacket', err) with err.packet = packet
\* and err.parse_error = e
CatchClause(packet, body) ==
  IF body.threw
  THEN [threw |-> FALSE,
        events |-> Append(body.events,
                          Event("badpacket", [packet |-> packet,
                                              parse_error |-> body.error])),
        sensorData |-> body.sensorData]
  ELSE [threw |-> FALSE, events |-> body.events,
        sensorData |-> body.sensorData]

\* the body of the try block for a stripped packet: parseSensorData, then
\* emitter.emit('sensordata') which runs _handleSensorData synchronously,
\* then this.emit('sensordata')
TryBlock(packet, stored) == TryParsed(parseSensorData(packet), stored)

\* try { ... } catch (e) { this.emit('badpacket', err) }
TryCatch(packet, stored) == CatchClause(packet, TryBlock(packet, stored))

\* the state the parser works on: this._buffer, this._sensorData, and what
\* the call has done so far
ParserState(buf, stored) ==
  [buffer |-> buf, sensorData |-> stored, decoded |-> <<>>, events |-> <<>>,
   thrown |-> FALSE]

\* the body of "if (sensors.isValidSensorPacket(packet))" for the candidate
\* at index i: splice the buffer, strip the packet, decode and emit
Extracted(st, rest, packet, outcome) ==
  [buffer |-> rest,
   sensorData |-> outcome.sensorData,
   decoded |-> Append(st.decoded, packet),
   events |-> st.events \o outcome.events,
   thrown |-> outcome.threw]

ExtractAt(i, st) ==
  Extracted(st,
            SpliceRest(st.buffer, EndIndex(st.buffer, i)),
            StripPacket(CandidateAt(st.buffer, i)),
            TryCatch(StripPacket(CandidateAt(st.buffer, i)), st.sensorData))

\* the scan loop walking up from index 0: the first candidate wins
RECURSIVE ScanUp(_, _)
ScanUp(i, st) ==
  CASE i > Len(st.buffer) -> st
    [] /\ i <= Len(st.buffer)
       /\ AtIs(st.buffer, i, PACKET_HEADER)
       /\ isValidSensorPacket(CandidateAt(st.buffer, i)) -> ExtractAt(i, st)
    [] OTHER -> ScanUp(i + 1, st)

ScanLoop_FirstMatch(i, st) == ScanUp(0, st)

\* the scan loop emptying the buffer when it finds no packet
RECURSIVE ScanLoop_DropsBuffer(_, _)
ScanLoop_DropsBuffer(i, st) ==
  CASE i < 0 -> [st EXCEPT !.buffer = <<>>]
    [] /\ i >= 0
       /\ AtIs(st.buffer, i, PACKET_HEADER)
       /\ isValidSensorPacket(CandidateAt(st.buffer, i)) -> ExtractAt(i, st)
    [] OTHER -> ScanLoop_DropsBuffer(i - 1, st)

\* the scan loop: for (i = buffer.length; i >= 0; i--), left by the break
\* that ends the body of the first candidate that passes validation
RECURSIVE ScanLoop(_, _)
ScanLoop(i, st) ==
  CASE i < 0 -> st
    [] /\ i >= 0
       /\ AtIs(st.buffer, i, PACKET_HEADER)
       /\ isValidSensorPacket(CandidateAt(st.buffer, i)) -> ExtractAt(i, st)
    [] OTHER -> ScanLoop(i - 1, st)

\* _parseSerialData(emitter, data) with this._buffer = buf and
\* this._sensorData = stored
parseSerialData(buf, data, stored) ==
  ScanLoop(Len(buf \o data), ParserState(buf \o data, stored))

\* emitter.emit('sensordata', parsedData) calls the listeners of the serial
\* port in the order they were added: _handleSensorData, added by the
\* constructor, then the once-listeners added by _init, each of which emits
\* 'ready' with the parsed data on the robot and is removed.  A throw of
\* _handleSensorData ends the emit before them; when it returns,
\* this.emit('sensordata') follows, so the once-listeners ran exactly when
\* the events of the call end with 'sensordata'.
ListenersRan(emitted) ==
  emitted # <<>> /\ emitted[Len(emitted)].name = "sensordata"

ReadyEvents(n, parsedData) == [k \in 1..n |-> Event("ready", parsedData)]

\* once-listeners that emit 'ready' twice each
WithReady_Twice(emitted, n) ==
  IF ListenersRan(emitted)
  THEN SubSeq(emitted, 1, Len(emitted) - 1)
       \o ReadyEvents(2 * n, emitted[Len(emitted)].data)
       \o <<emitted[Len(emitted)]>>
  ELSE emitted

\* the events of a call of the parser with n once-listeners registered
WithReady(emitted, n) ==
  IF ListenersRan(emitted)
  THEN SubSeq(emitted, 1, Len(emitted) - 1)
       \o ReadyEvents(n, emitted[Len(emitted)].data)
       \o <<emitted[Len(emitted)]>>
  ELSE emitted

\* one call of the parser with a chunk of serial data
ParseSerialData(data) ==
  \E out \in {parseSerialData(buffer, data, sensorData)} :
    /\ scanned' = buffer \o data
    /\ before' = sensorData
    /\ buffer' = out.buffer
    /\ sensorData' = out.sensorData
    /\ decoded' = out.decoded
    /\ events' = WithReady(out.events, readyListeners)
    /\ readyListeners' =
         IF ListenersRan(out.events) THEN 0 ELSE readyListeners
    /\ thrown' = out.thrown
    /\ written' = <<>>
    /\ UNCHANGED <<arg, ret, ledState, timers, port>>

\* ---------------------------------------------------------- specifications
\* Spec: the parser is fed arbitrary chunks of the bytes of NoiseBytes
Chunks == SeqsUpTo(NoiseBytes, MaxChunk)

Init ==
  /\ buffer = <<>>
  /\ sensorData = Null
  /\ scanned = <<>>
  /\ decoded = <<>>
  /\ events = <<>>
  /\ thrown = FALSE
  /\ before = Null
  /\ pending = <<>>
  /\ lead = <<>>
  /\ frame = <<>>
  /\ got = <<>>
  /\ arg = Undefined
  /\ ret = Undefined
  /\ RobotIdle

Feed ==
  \E data \in Chunks :
    /\ Len(buffer) + Len(data) <= MaxBuf
    /\ ParseSerialData(data)
    /\ UNCHANGED <<pending, lead, frame, got>>

Next == Feed

Spec == Init /\ [][Next]_vars

\* the sum of the bytes of a sequence
RECURSIVE SumBytes(_)
SumBytes(p) == IF p = <<>> THEN 0 ELSE Head(p) + SumBytes(Tail(p))

\* one delivery of the serial port: the first k pending bytes are handed to
\* the parser as one chunk
DeliverChunk(k) ==
  /\ ParseSerialData(SubSeq(pending, 1, k))
  /\ pending' = SubSeq(pending, k + 1, Len(pending))
  /\ got' = got \o decoded'
  /\ UNCHANGED <<lead, frame>>

Deliver == \E k \in 1..Len(pending) : DeliverChunk(k)

\* SpecFrame: one frame is on the serial line, alone or behind a lone header
\* byte, and is delivered to an empty framer in chunks of any sizes.  The
\* frame is [19, n, ...P, checksum] for a payload P over PayloadBytes, with
\* the checksum that makes the sum of the frame 0 modulo 256 and a length
\* byte n of Len(P) or Len(P) + 1.
ChecksumFor(bytes) == (256 - (SumBytes(bytes) % 256)) % 256

BuildFrame(n, P) == <<19, n>> \o P \o <<ChecksumFor(<<19, n>> \o P)>>

Payloads == SeqsUpTo(PayloadBytes, MaxPayload)

InitFrame ==
  /\ buffer = <<>>
  /\ sensorData = Null
  /\ scanned = <<>>
  /\ decoded = <<>>
  /\ events = <<>>
  /\ thrown = FALSE
  /\ before = Null
  /\ got = <<>>
  /\ arg = Undefined
  /\ ret = Undefined
  /\ RobotIdle
  /\ \E P \in Payloads, extra \in {0, 1} :
       /\ frame = BuildFrame(Len(P) + extra, P)
       /\ lead \in (IF extra = 0 THEN {<<>>, <<19>>} ELSE {<<>>})
  /\ pending = lead \o frame

SpecFrame == InitFrame /\ [][Deliver]_vars

\* SpecStream: the robot streams frames.  A payload holds the packets
\* prettifySensorData needs, with a choice of bump/wheel-drop byte, buttons
\* byte and OI mode packet (present or not); a bad payload is such a payload
\* with an id outside the registry put in front of it, after its first
\* packet or behind it.  One frame, or two frames back to back, are put on
\* the line when it is empty and delivered whole, frame by frame, or in
\* chunks of StreamChunk bytes.
StreamPayload(bw, btn, mode) ==
  <<7, bw, 14, 0, 17, 255, 18, btn, 21, 0, 22, 0, 0, 23, 0, 0, 24, 0,
    25, 0, 0, 26, 0, 1, 32, 0>>
  \o mode

GoodPayloads ==
  {StreamPayload(bw, btn, mode) :
     bw \in {0, 2, 3, 16}, btn \in {0, 1},
     mode \in {<<>>, <<35, 1>>, <<35, 2>>}}

\* a frame damaged on the line: its last payload byte is not the one its
\* checksum was computed for
DamagedFrame ==
  LET f == BuildFrame(Len(StreamPayload(0, 0, <<35, 1>>)), StreamPayload(0, 0, <<35, 1>>))
  IN [f EXCEPT ![Len(f) - 1] = 2]

BadPayloads ==
  LET P == StreamPayload(3, 1, <<35, 2>>)
  IN {<<16>> \o P, P \o <<16>>, P \o <<15, 0>>,
      SubSeq(P, 1, 2) \o <<6>> \o SubSeq(P, 3, Len(P))}

StreamFrames ==
  {BuildFrame(Len(P), P) : P \in GoodPayloads \union BadPayloads}
  \union {DamagedFrame}

\* the frames that may follow another frame on the line
SecondFrames ==
  {BuildFrame(Len(P), P) : P \in {StreamPayload(0, 0, <<35, 1>>), StreamPayload(3, 1, <<35, 2>>) \o <<16>>}}

Send ==
  /\ pending = <<>>
  /\ Len(buffer) <= MaxBacklog
  /\ \E f \in StreamFrames, g \in SecondFrames \union {<<>>} :
       /\ pending' = f \o g
       /\ frame' = f
  /\ lead' = <<>>
  /\ got' = <<>>
  /\ scanned' = <<>>
  /\ decoded' = <<>>
  /\ events' = <<>>
  /\ before' = sensorData
  /\ UNCHANGED <<buffer, sensorData, thrown, arg, ret, robotVars>>

DeliverStream ==
  \E k \in {Len(pending), Len(frame), StreamChunk} :
    /\ k >= 1
    /\ k <= Len(pending)
    /\ DeliverChunk(k)

NextStream == Send \/ DeliverStream

SpecStream == Init /\ [][NextStream]_vars

\* ------------------------------------------------------------- properties
\* the frame invariants of the wire format, stated on a byte sequence
WellFormedFrame(p) ==
  /\ Len(p) >= 2
  /\ p[1] = 19
  /\ p[2] + 3 = Len(p)
  /\ SumBytes(p) % 256 = 0

\* the 0-based indices of buf that hold the header byte and start a
\* complete well-formed frame
FrameStarts(buf) ==
  {i \in 0..(Len(buf) - 2) :
     /\ buf[i + 1] = 19
     /\ i + buf[i + 2] + 3 <= Len(buf)
     /\ WellFormedFrame(SubSeq(buf, i + 1, i + buf[i + 2] + 3))}

\* the exclusive end index of the frame that starts at index i of buf
FrameEnd(buf, i) == i + buf[i + 2] + 3

Greatest(S) == CHOOSE x \in S : \A y \in S : y <= x

\* C1: isValidSensorPacket(p) is true exactly when p[0] = 19,
\* p[1] + 3 = length(p) and the sum of all bytes of p is 0 modulo 256,
\* for every slice p of the bytes the framer scanned
ValidatorMatchesFrameInvariants ==
  \A a \in 0..Len(scanned), b \in 0..Len(scanned) :
    isValidSensorPacket(SliceJS(scanned, a, b))
      = WellFormedFrame(SliceJS(scanned, a, b))

\* the scanned bytes hold a frame the validator accepts with a payload, a
\* slice it rejects for its checksum only and one it rejects for its length
\* only
ValidatorWitness ==
  /\ decoded # <<>>
  /\ \E a \in 0..Len(scanned), b \in 0..Len(scanned) :
       /\ isValidSensorPacket(SliceJS(scanned, a, b))
       /\ Len(SliceJS(scanned, a, b)) >= 4
  /\ \E a \in 0..Len(scanned), b \in 0..Len(scanned) :
       LET p == SliceJS(scanned, a, b)
       IN /\ Len(p) >= 2 /\ p[1] = 19 /\ p[2] + 3 = Len(p)
          /\ SumBytes(p) % 256 # 0
  /\ \E a \in 0..Len(scanned), b \in 0..Len(scanned) :
       LET p == SliceJS(scanned, a, b)
       IN /\ Len(p) >= 2 /\ p[1] = 19 /\ p[2] + 3 # Len(p)
          /\ SumBytes(p) % 256 = 0

\* C5: when one or more indices of the scanned buffer start a well-formed
\* frame, the frame extracted is the one with the greatest start index: the
\* payload decoded is its payload and the buffer keeps what follows its end
LastCandidateWins ==
  FrameStarts(scanned) # {} =>
    LET i == Greatest(FrameStarts(scanned))
    IN /\ decoded = <<SubSeq(scanned, i + 3, FrameEnd(scanned, i) - 1)>>
       /\ Len(buffer) = Len(scanned) - FrameEnd(scanned, i)

\* two frames with different payloads were in the scanned buffer
LastCandidateWitness ==
  /\ decoded # <<>>
  /\ \E i \in FrameStarts(scanned), j \in FrameStarts(scanned) :
       /\ i < j
       /\ SubSeq(scanned, i + 3, FrameEnd(scanned, i) - 1)
            # SubSeq(scanned, j + 3, FrameEnd(scanned, j) - 1)

\* C6: when no index of the scanned buffer starts a well-formed frame, the
\* feed emits nothing, decodes nothing and the buffer is the old buffer
\* followed by the chunk
NoCandidateKeepsBuffer ==
  FrameStarts(scanned) = {} =>
    /\ events = <<>>
    /\ decoded = <<>>
    /\ buffer = scanned

\* a header whose declared length reaches past the end of the buffer, and a
\* complete candidate with a wrong checksum, with nothing extracted
NoCandidateWitness ==
  /\ FrameStarts(scanned) = {}
  /\ buffer = scanned
  /\ \E i \in 0..(Len(scanned) - 2) :
       scanned[i + 1] = 19 /\ FrameEnd(scanned, i) > Len(scanned)
  /\ \E i \in 0..(Len(scanned) - 2) :
       scanned[i + 1] = 19 /\ FrameEnd(scanned, i) <= Len(scanned)

\* C7: when a feed extracts a frame occupying the indices [i, e) of the
\* scanned buffer, the payload decoded is the frame without its first two
\* bytes and its last byte, and the buffer is the bytes at the indices >= e
ExtractionStripsAndDrops ==
  decoded # <<>> =>
    \E i \in FrameStarts(scanned) :
      LET e == FrameEnd(scanned, i)
      IN /\ decoded = <<SubSeq(scanned, i + 3, e - 1)>>
         /\ buffer = SubSeq(scanned, e + 1, Len(scanned))

\* a frame with a payload was extracted from the middle of the buffer
ExtractionWitness ==
  /\ decoded # <<>>
  /\ decoded[1] # <<>>
  /\ buffer # <<>>
  /\ Len(buffer) + Len(decoded[1]) + 3 < Len(scanned)

\* the payload of a frame: the bytes between its length byte and checksum
PayloadOf(f) == SubSeq(f, 3, Len(f) - 1)

SingleFeed(f) ==
  IF FrameStarts(f) = {} THEN <<>>
  ELSE LET i == Greatest(FrameStarts(f))
       IN <<SubSeq(f, i + 3, FrameEnd(f, i) - 1)>>

\* C3: once a valid frame has been delivered to an empty framer, in chunks
\* of any sizes, the payloads extracted are those of a single feed of it
PartialDeliveryEqualsSingleFeed ==
  (pending = <<>> /\ lead = <<>> /\ WellFormedFrame(frame)) =>
    got = SingleFeed(frame)

\* C4: when the buffer is a header byte that starts no valid frame followed
\* by one valid frame, the feed extracts the payload of that frame
ResyncExtractsRealFrame ==
  (lead = <<19>> /\ scanned = lead \o frame /\ WellFormedFrame(frame)
   /\ 0 \notin FrameStarts(scanned)) =>
    decoded = <<PayloadOf(frame)>>

\* the number of events of a sequence whose name is in a set
RECURSIVE CountNamed(_, _)
CountNamed(evts, names) ==
  IF evts = <<>> THEN 0
  ELSE (IF Head(evts).name \in names THEN 1 ELSE 0) + CountNamed(Tail(evts), names)

\* C8: a feed never ends with an exception: decode failures become a
\* 'badpacket' notification
FeedNeverThrows == thrown = FALSE

\* a feed that rejected a candidate, extracted a frame whose decode failed
\* and reported it
FeedNeverThrowsWitness ==
  /\ decoded # <<>>
  /\ events # <<>>
  /\ events[Len(events)].name = "badpacket"
  /\ scanned[1] = 19
  /\ 0 \notin FrameStarts(scanned)

\* C9: one feed hands at most one payload to the decoder and emits at most
\* one 'sensordata' or 'badpacket' notification
OneExtractionPerFeed ==
  /\ Len(decoded) <= 1
  /\ CountNamed(events, {"sensordata", "badpacket"}) <= 1
  /\ Len(decoded) = CountNamed(events, {"sensordata", "badpacket"})

\* a feed whose buffer held two complete valid frames and that emitted one
\* notification
OneExtractionWitness ==
  /\ Cardinality(FrameStarts(scanned)) >= 2
  /\ CountNamed(events, {"sensordata"}) = 1

\* the ids of the registry, as the protocol lists them
RegisteredIds == (7..14) \union (17..42)

\* TRUE when the walk of a payload from position i, one id byte and the
\* data bytes of its packet at a time, meets an id outside the registry
RECURSIVE MeetsUnknownId(_, _)
MeetsUnknownId(P, i) ==
  IF i >= Len(P) THEN FALSE
  ELSE IF P[i + 1] \notin RegisteredIds THEN TRUE
  ELSE MeetsUnknownId(P, i + 1 + SENSOR_PACKETS_BY_ID[P[i + 1]].bytes)

DiffEventNames ==
  {"bump", "bump:left", "bump:right", "bump:both", "button",
   "button:advance", "button:play", "cliff", "cliff:left",
   "cliff:front_left", "cliff:front_right", "cliff:right", "ir", "mode",
   "mode:off", "mode:passive", "mode:safe", "mode:full", "overcurrent",
   "overcurrent:wheel:left", "overcurrent:wheel:right",
   "overcurrent:lowsidedriver:0", "overcurrent:lowsidedriver:1",
   "overcurrent:lowsidedriver:2", "virtualwall", "wall", "wheeldrop",
   "wheeldrop:left", "wheeldrop:right", "wheeldrop:caster", "change"}

\* C10: a decoded payload with an id outside the registry at a packet-id
\* position yields exactly one 'badpacket' event carrying the payload, no
\* 'sensordata', no diff event, and leaves the previous snapshot unchanged
UnknownIdFailsWholeFrame ==
  (decoded # <<>> /\ MeetsUnknownId(decoded[1], 0)) =>
    /\ Len(events) = 1
    /\ events[1].name = "badpacket"
    /\ events[1].data.packet = decoded[1]
    /\ CountNamed(events, {"sensordata"} \union DiffEventNames) = 0
    /\ sensorData = before

\* a previous snapshot is stored and the payload has recognized packets,
\* with changed watched values, in front of the unknown id
UnknownIdWitness ==
  /\ decoded # <<>>
  /\ MeetsUnknownId(decoded[1], 0)
  /\ decoded[1][1] \in RegisteredIds
  /\ before # Null
  /\ before[1].bumpers.left.activated = <<FALSE>>
  /\ decoded[1][1] = 7 /\ decoded[1][2] = 3
  /\ sensorData = before

\* ------------------------------------------------- the comparison passes
\* SpecDiff: the robot streams whole frames, one per feed, into an empty
\* buffer.  A payload holds the packets prettifySensorData needs and the
\* packets of every watched path: the bump/wheel-drop byte, the six one-byte
\* detectors (wall, the four cliff sensors, virtual wall), the overcurrent
\* byte, the infrared byte, the buttons byte and the OI mode packet.
SensorPayload(bw, flags, oc, ir, btn, mode) ==
  <<7, bw, 8, flags[1], 9, flags[2], 10, flags[3], 11, flags[4],
    12, flags[5], 13, flags[6], 14, oc, 17, ir, 18, btn, 21, 0, 22, 0, 0,
    23, 0, 0, 24, 0, 25, 0, 0, 26, 0, 1, 32, 0>>
  \o mode

NoFlags == <<0, 0, 0, 0, 0, 0>>

\* nothing active, passive mode
QuietPayload == SensorPayload(0, NoFlags, 0, 255, 0, <<35, 1>>)

\* the quiet payload with one group of watched paths changed, and payloads
\* with several groups active; <<>> for the mode leaves the OI mode packet
\* out of the frame, and the mode byte 4 is none of the four modes
DiffPayloads ==
  {QuietPayload}
  \union {SensorPayload(bw, NoFlags, 0, 255, 0, <<35, 1>>) : bw \in {1, 2, 3, 4, 8, 16}}
  \union {SensorPayload(0, [NoFlags EXCEPT ![k] = 1], 0, 255, 0, <<35, 1>>) : k \in 1..6}
  \union {SensorPayload(0, NoFlags, oc, 255, 0, <<35, 1>>) : oc \in {1, 2, 4, 8, 16}}
  \union {SensorPayload(0, NoFlags, 0, 0, 0, <<35, 1>>)}
  \union {SensorPayload(0, NoFlags, 0, 255, btn, <<35, 1>>) : btn \in {1, 4, 5}}
  \union {SensorPayload(0, NoFlags, 0, 255, 0, mode) :
            mode \in {<<>>, <<35, 0>>, <<35, 2>>, <<35, 3>>, <<35, 4>>}}
  \union {SensorPayload(3, NoFlags, 0, 255, 0, <<>>),
          SensorPayload(31, <<1, 1, 1, 1, 1, 1>>, 31, 0, 5, <<35, 2>>)}

\* payloads that end in the middle of a packet: a wall packet without its
\* byte, a distance packet with one of its two bytes, a distance packet
\* without bytes
TruncatedPayloads ==
  {QuietPayload \o <<8>>, QuietPayload \o <<19, 5>>, QuietPayload \o <<19>>}

\* a payload without the packet of the given id
RECURSIVE Without(_, _)
Without(P, id) ==
  IF P = <<>> THEN <<>>
  ELSE LET n == getById(Head(P))[1].bytes
       IN IF Head(P) = id THEN Without(SubSeq(P, n + 2, Len(P)), id)
          ELSE SubSeq(P, 1, n + 1) \o Without(SubSeq(P, n + 2, Len(P)), id)

\* payloads of a stream configured without one of the sensor packets
PartialPayloads == {Without(QuietPayload, id) : id \in {7, 8, 17, 18, 35}}

\* one whole frame arrives in one chunk
FeedFrame ==
  \E P \in DiffPayloads \union TruncatedPayloads \union PartialPayloads :
    /\ ParseSerialData(BuildFrame(Len(P), P))
    /\ UNCHANGED <<pending, lead, frame, got>>

SpecDiff == Init /\ [][FeedFrame]_vars

\* ----------------------------------------------- claims about the decoder
\* the pass decoded its frame: the parser emitted 'sensordata'
PassDecoded == \E k \in DOMAIN events : events[k].name = "sensordata"

\* the pass reported its frame as a bad packet
PassFailed == \E k \in DOMAIN events : events[k].name = "badpacket"

\* walking the payload by the byte widths of the registry, the last packet
\* id is followed by fewer bytes than its width
RECURSIVE EndsMidPacket(_, _)
EndsMidPacket(P, i) ==
  IF i >= Len(P) THEN FALSE
  ELSE LET info == getById(P[i + 1])
       IN IF info = Undefined THEN FALSE
          ELSE IF i + 1 + info[1].bytes > Len(P) THEN TRUE
          ELSE EndsMidPacket(P, i + 1 + info[1].bytes)

\* C11: a payload that ends mid-packet is a decode failure: the pass reports
\* a bad packet, emits no 'sensordata' and leaves the stored snapshot alone
TruncatedIsDecodeFailure ==
  (decoded # <<>> /\ EndsMidPacket(decoded[1], 0)) =>
    (PassFailed /\ ~ PassDecoded /\ sensorData = before)

\* what the code does with a payload that ends mid-packet: the decode fails
\* only when an integer packet is left without any byte
TruncatedFailsOnlyWithoutBytes ==
  (decoded # <<>> /\ EndsMidPacket(decoded[1], 0) /\ before = Null) =>
    (PassFailed <=> decoded[1][Len(decoded[1])] \in IntIds)

\* the walk over the packets of the payload ended without a throw, so the
\* flat field map reached the reshape step
WalkReturned(P) == ~ ParseLoop(P, 0, EmptyRaw).threw

\* the registered packets the payload holds no id of
MissingPackets(P) == RegisteredIds \ DOMAIN ParseLoop(P, 0, EmptyRaw).value

\* C12: the reshape step is total: a frame whose packets all parse, compared
\* with no stored snapshot, is decoded whichever sensor packets it omits
ReshapeIsTotal ==
  (decoded # <<>> /\ before = Null /\ WalkReturned(decoded[1])) =>
    (PassDecoded /\ ~ PassFailed /\ sensorData # Null)

\* what the code does when packets are missing: the reshape throws exactly
\* when one of the packets whose fields it dereferences is missing
ReshapeThrowsOnMissingObject ==
  (decoded # <<>> /\ before = Null /\ WalkReturned(decoded[1])) =>
    (PassFailed <=> MissingPackets(decoded[1]) \cap PrettifyRequired # {})

\* ------------------------------------------ claims about the diff events
\* the snapshot the pass decoded: the data of its 'sensordata' event
Snapshot ==
  events[CHOOSE k \in DOMAIN events : events[k].name = "sensordata"].data

\* every watched path active, safe mode
AllActivePayload == SensorPayload(31, <<1, 1, 1, 1, 1, 1>>, 31, 0, 5, <<35, 2>>)

\* C13: with no stored snapshot a decoded frame emits no individual,
\* aggregate or 'change' event, and its snapshot becomes the stored one
FirstSnapshotIsSilent ==
  (before = Null /\ PassDecoded) =>
    (CountNamed(events, DiffEventNames) = 0 /\ sensorData = Def(Snapshot))

\* the first frame of a stream had every watched path active
FirstSnapshotWitness ==
  /\ before = Null
  /\ PassDecoded
  /\ decoded = <<AllActivePayload>>
  /\ sensorData # Null
  /\ sensorData[1].bumpers.left.activated = Def(TRUE)
  /\ sensorData[1].wall_sensor.detecting = Def(TRUE)

\* the watched paths and the individual event of each
WatchedPaths ==
  {<<"wheels.right.dropped", "wheeldrop:right">>,
   <<"wheels.left.dropped", "wheeldrop:left">>,
   <<"wheels.caster.dropped", "wheeldrop:caster">>,
   <<"bumpers.right.activated", "bump:right">>,
   <<"bumpers.left.activated", "bump:left">>,
   <<"cliff_sensors.left.detecting", "cliff:left">>,
   <<"cliff_sensors.front_left.detecting", "cliff:front_left">>,
   <<"cliff_sensors.front_right.detecting", "cliff:front_right">>,
   <<"cliff_sensors.right.detecting", "cliff:right">>,
   <<"wall_sensor.detecting", "wall">>,
   <<"virtual_wall_sensor.detecting", "virtualwall">>,
   <<"ir.receiving", "ir">>,
   <<"buttons.advance.pressed", "button:advance">>,
   <<"buttons.play.pressed", "button:play">>,
   <<"state.mode.off", "mode:off">>,
   <<"state.mode.passive", "mode:passive">>,
   <<"state.mode.safe", "mode:safe">>,
   <<"state.mode.full", "mode:full">>,
   <<"wheels.left.overcurrent", "overcurrent:wheel:left">>,
   <<"wheels.right.overcurrent", "overcurrent:wheel:right">>,
   <<"low_side_drivers.0.overcurrent", "overcurrent:lowsidedriver:0">>,
   <<"low_side_drivers.1.overcurrent", "overcurrent:lowsidedriver:1">>,
   <<"low_side_drivers.2.overcurrent", "overcurrent:lowsidedriver:2">>}

\* the value a snapshot holds at a watched path, Undefined when the path
\* leads through a missing object
ValueAt(obj, keyString) ==
  IF WalkThrows(obj, keyString) THEN Undefined ELSE Walk(obj, keyString)

\* the path changed to active between two snapshots
ChangedToActive(prev, cur, keyString) ==
  /\ ValueAt(cur, keyString) # ValueAt(prev, keyString)
  /\ ValueAt(cur, keyString) = Def(TRUE)

\* the pass compared a stored snapshot with the snapshot of its frame
PassCompared ==
  before # Null /\ decoded # <<>> /\ ~ parseSensorData(decoded[1]).threw

\* the snapshot of the frame of the pass
Current == parseSensorData(decoded[1]).value

\* the OI mode is known in both snapshots of the pass
ModeKnown ==
  before[1].state.mode # Undefined /\ Current.state.mode # Undefined

\* C14: in a comparison pass the individual event of every watched path is
\* emitted once if the path changed to active and not at all otherwise
IndividualEventIffChangedToActive ==
  PassCompared =>
    \A w \in WatchedPaths :
      CountNamed(events, {w[2]}) =
        IF ChangedToActive(before[1], Current, w[1]) THEN 1 ELSE 0

\* the same for the passes whose two snapshots both hold the OI mode
IndividualEventWhenModeKnown ==
  (PassCompared /\ ModeKnown) =>
    \A w \in WatchedPaths :
      CountNamed(events, {w[2]}) =
        IF ChangedToActive(before[1], Current, w[1]) THEN 1 ELSE 0

\* the groups of several watched paths, named by their aggregate event
Groups == {"wheeldrop", "bump", "cliff", "button", "mode", "overcurrent"}

GroupPaths(g) ==
  CASE g = "wheeldrop" ->
         {"wheels.right.dropped", "wheels.left.dropped", "wheels.caster.dropped"}
    [] g = "bump" -> {"bumpers.right.activated", "bumpers.left.activated"}
    [] g = "cliff" ->
         {"cliff_sensors.left.detecting", "cliff_sensors.front_left.detecting",
          "cliff_sensors.front_right.detecting", "cliff_sensors.right.detecting"}
    [] g = "button" -> {"buttons.advance.pressed", "buttons.play.pressed"}
    [] g = "mode" -> ModeKeys
    [] g = "overcurrent" ->
         {"wheels.left.overcurrent", "wheels.right.overcurrent",
          "low_side_drivers.0.overcurrent", "low_side_drivers.1.overcurrent",
          "low_side_drivers.2.overcurrent"}

\* the payload of the aggregate event of a group holds the value the
\* snapshot cur has at every path of the group
CarriesCurrent(data, g, cur) ==
  CASE g = "wheeldrop" ->
         /\ data.right = ValueAt(cur, "wheels.right.dropped")
         /\ data.left = ValueAt(cur, "wheels.left.dropped")
         /\ data.caster = ValueAt(cur, "wheels.caster.dropped")
    [] g = "bump" ->
         /\ data.right = ValueAt(cur, "bumpers.right.activated")
         /\ data.left = ValueAt(cur, "bumpers.left.activated")
    [] g = "cliff" ->
         /\ data.left.detecting = ValueAt(cur, "cliff_sensors.left.detecting")
         /\ data.front_left.detecting = ValueAt(cur, "cliff_sensors.front_left.detecting")
         /\ data.front_right.detecting = ValueAt(cur, "cliff_sensors.front_right.detecting")
         /\ data.right.detecting = ValueAt(cur, "cliff_sensors.right.detecting")
    [] g = "button" ->
         /\ data.advance = ValueAt(cur, "buttons.advance.pressed")
         /\ data.play = ValueAt(cur, "buttons.play.pressed")
    [] g = "mode" ->
         /\ Def(data.off) = ValueAt(cur, "state.mode.off")
         /\ Def(data.passive) = ValueAt(cur, "state.mode.passive")
         /\ Def(data.safe) = ValueAt(cur, "state.mode.safe")
         /\ Def(data.full) = ValueAt(cur, "state.mode.full")
    [] g = "overcurrent" ->
         /\ data.wheels.left = ValueAt(cur, "wheels.left.overcurrent")
         /\ data.wheels.right = ValueAt(cur, "wheels.right.overcurrent")
         /\ data.low_side_drivers[1] = ValueAt(cur, "low_side_drivers.0.overcurrent")
         /\ data.low_side_drivers[2] = ValueAt(cur, "low_side_drivers.1.overcurrent")
         /\ data.low_side_drivers[3] = ValueAt(cur, "low_side_drivers.2.overcurrent")

\* some path of the group changed to active between two snapshots
GroupChangedToActive(prev, cur, g) ==
  \E k \in GroupPaths(g) : ChangedToActive(prev, cur, k)

\* the aggregate event of the group is emitted once with the current values
\* when a path of the group changed to active, and not at all otherwise
AggregateOf(g, prev, cur) ==
  /\ CountNamed(events, {g}) = IF GroupChangedToActive(prev, cur, g) THEN 1 ELSE 0
  /\ \A i \in DOMAIN events :
       events[i].name = g => CarriesCurrent(events[i].data, g, cur)

\* C15: in a comparison pass the aggregate event of every group of several
\* paths is emitted exactly once if a path of the group changed to active,
\* carrying the current value of every path of the group, and not otherwise
AggregateIffAnyChangedToActive ==
  PassCompared => \A g \in Groups : AggregateOf(g, before[1], Current)

\* the same for the passes whose two snapshots both hold the OI mode
AggregateWhenModeKnown ==
  (PassCompared /\ ModeKnown) =>
    \A g \in Groups : AggregateOf(g, before[1], Current)

BumperPaths == {"bumpers.right.activated", "bumpers.left.activated"}

\* both bumpers went from inactive to active and every other watched path
\* kept its value
BothBumpersPressed(prev, cur) ==
  /\ \A k \in BumperPaths :
       ValueAt(prev, k) = Def(FALSE) /\ ValueAt(cur, k) = Def(TRUE)
  /\ \A w \in WatchedPaths :
       w[1] \notin BumperPaths => ValueAt(prev, w[1]) = ValueAt(cur, w[1])

\* the pass emitted 'bump:left', 'bump:right', one 'bump' with both = true
\* and one 'change'
BumpEventsAndOneChange ==
  /\ CountNamed(events, {"bump:left"}) = 1
  /\ CountNamed(events, {"bump:right"}) = 1
  /\ CountNamed(events, {"bump"}) = 1
  /\ \A i \in DOMAIN events :
       events[i].name = "bump" => events[i].data.both = Def(TRUE)
  /\ CountNamed(events, {"change"}) = 1

\* C16: when both bumpers go from inactive to active and every other watched
\* path keeps its value, the pass emits 'bump:left', 'bump:right', one 'bump'
\* whose payload has both = true, and exactly one 'change'
BothBumpersEmitOneChange ==
  (PassCompared /\ BothBumpersPressed(before[1], Current)) =>
    BumpEventsAndOneChange

\* the same for the passes whose two snapshots both hold the OI mode
BothBumpersWhenModeKnown ==
  (PassCompared /\ ModeKnown /\ BothBumpersPressed(before[1], Current)) =>
    BumpEventsAndOneChange

\* both bumpers were pressed between two snapshots that hold the OI mode
BothBumpersModeKnownReached ==
  /\ PassCompared
  /\ ModeKnown
  /\ BothBumpersPressed(before[1], Current)
  /\ CountNamed(events, {"change"}) = 1

\* C17: the 'both' of every 'bump' event is computed from the current
\* snapshot: it is true exactly when the left and the right bumper are both
\* active in it, whichever of them changed
BumpBothFromCurrent ==
  \A i \in DOMAIN events :
    events[i].name = "bump" =>
      /\ PassCompared
      /\ events[i].data.both =
           Def(/\ ValueAt(Current, "bumpers.left.activated") = Def(TRUE)
               /\ ValueAt(Current, "bumpers.right.activated") = Def(TRUE))

\* the left bumper stayed active, the right bumper became active, and 'bump'
\* was emitted with both = true
BumpBothWitness ==
  /\ PassCompared
  /\ ValueAt(before[1], "bumpers.left.activated") = Def(TRUE)
  /\ ValueAt(before[1], "bumpers.right.activated") = Def(FALSE)
  /\ ValueAt(Current, "bumpers.left.activated") = Def(TRUE)
  /\ ValueAt(Current, "bumpers.right.activated") = Def(TRUE)
  /\ CountNamed(events, {"bump:left"}) = 0
  /\ CountNamed(events, {"bump:right"}) = 1
  /\ \E i \in DOMAIN events :
       events[i].name = "bump" /\ events[i].data.both = Def(TRUE)

\* the events of the groups: every diff event but the meta event
GroupEventNames == DiffEventNames \ {"change"}

\* 'change' is emitted once when a group emitted an event and not at all
\* otherwise
OneChangeIffGroupEvent ==
  CountNamed(events, {"change"}) =
    IF CountNamed(events, GroupEventNames) > 0 THEN 1 ELSE 0

\* C18: in every comparison pass 'change' is emitted at most once, and
\* exactly when at least one group emitted an event in that pass
ChangeIffSomeGroupEmitted == PassCompared => OneChangeIffGroupEvent

\* the same for the passes whose two snapshots both hold the OI mode
ChangeWhenModeKnown == (PassCompared /\ ModeKnown) => OneChangeIffGroupEvent

\* whatever the snapshots, 'change' is never emitted twice, and never in a
\* pass in which no watched path changed to active
ChangeAtMostOnce ==
  /\ CountNamed(events, {"change"}) <= 1
  /\ (PassCompared /\ \A w \in WatchedPaths :
                        ~ ChangedToActive(before[1], Current, w[1])) =>
       CountNamed(events, {"change"}) = 0

\* ------------------------------------- claims about the stored snapshot
\* the frame of the pass decodes: parseSensorData returns its snapshot
FrameDecodes == decoded # <<>> /\ ~ parseSensorData(decoded[1]).threw

\* C19: the stored snapshot is replaced only by a successful decode and bad
\* frames do not halt the pipeline: a frame whose decode fails leaves the
\* stored snapshot alone, and a frame that decodes, whatever came before it,
\* is reported with 'sensordata' and becomes the stored snapshot
SnapshotFollowsGoodFrames ==
  decoded # <<>> =>
    IF FrameDecodes
    THEN PassDecoded /\ ~ PassFailed /\ sensorData = Def(Current)
    ELSE PassFailed /\ sensorData = before

\* the part that holds: the stored snapshot changes only in a pass that
\* emitted 'sensordata', and then to the snapshot of that event
SnapshotReplacedOnlyByDecode ==
  sensorData # before => (PassDecoded /\ sensorData = Def(Snapshot))

\* the same as C19 for the passes that have no stored snapshot or whose two
\* snapshots both hold the OI mode
SnapshotFollowsWhenModeKnown ==
  (decoded # <<>> /\ (before = Null \/ ~ FrameDecodes \/ ModeKnown)) =>
    IF FrameDecodes
    THEN PassDecoded /\ ~ PassFailed /\ sensorData = Def(Current)
    ELSE PassFailed /\ sensorData = before

\* the stored snapshot holds no OI mode
StoredWithoutMode == sensorData # Null /\ sensorData[1].state.mode = Undefined

\* once a snapshot without the OI mode is stored no frame replaces it
ModeLessSnapshotStays == [][StoredWithoutMode => sensorData' = sensorData]_vars

\* ------------------------------------------------------------ bit mapping
\* SpecBits: the bit utilities of misc.js applied to every byte
Bytes == 0..255

InitBits ==
  /\ buffer = <<>>
  /\ sensorData = Null
  /\ scanned = <<>>
  /\ decoded = <<>>
  /\ events = <<>>
  /\ thrown = FALSE
  /\ before = Null
  /\ pending = <<>>
  /\ lead = <<>>
  /\ frame = <<>>
  /\ got = <<>>
  /\ arg \in {Def(b) : b \in Bytes}
  /\ ret = Undefined
  /\ RobotIdle

\* bitsToByte(byteToBits(b)) for the byte b held in arg
BitsRoundTrip ==
  /\ ret = Undefined
  /\ ret' = Def(bitsToByte(byteToBits(arg)))
  /\ UNCHANGED <<buffer, sensorData, scanned, decoded, events, thrown, before,
                 pending, lead, frame, got, arg, robotVars>>

SpecBits == InitBits /\ [][BitsRoundTrip]_vars

\* C20: for every byte b in 0..255, bitsToByte(byteToBits(b)) = b
BitsRoundTripIsIdentity == ret # Undefined => ret = arg

\* the round trip was made for a byte with set and clear bits on both sides
BitsRoundTripWitness == arg = Def(166) /\ ret = Def(166)

\* -------------------------------------------------------------- bit order
\* SpecOrder: byteToBits applied to every byte, bitsToByte applied to every
\* list of at most eight booleans and to lists of nine
parserVars ==
  <<buffer, sensorData, scanned, decoded, events, thrown, before, pending,
    lead, frame, got>>

\* the robot as the constructor leaves it, no byte received
ParserIdle ==
  /\ buffer = <<>>
  /\ sensorData = Null
  /\ scanned = <<>>
  /\ decoded = <<>>
  /\ events = <<>>
  /\ thrown = FALSE
  /\ before = Null
  /\ pending = <<>>
  /\ lead = <<>>
  /\ frame = <<>>
  /\ got = <<>>
  /\ RobotIdle

\* JavaScript arrays of booleans, indexed from 0, of at most nine entries
BitLists == UNION {[0..(n - 1) -> BOOLEAN] : n \in 0..9}

InitOrder ==
  /\ ParserIdle
  /\ arg \in {<<"byteToBits", b>> : b \in Bytes}
             \union {<<"bitsToByte", bits>> : bits \in BitLists}
  /\ ret = Undefined

ByteToBits ==
  /\ ret = Undefined
  /\ arg[1] = "byteToBits"
  /\ ret' = Def(byteToBits(Def(arg[2])))
  /\ UNCHANGED <<parserVars, robotVars, arg>>

BitsToByte ==
  /\ ret = Undefined
  /\ arg[1] = "bitsToByte"
  /\ ret' = Def(bitsToByte(arg[2]))
  /\ UNCHANGED <<parserVars, robotVars, arg>>

NextOrder == ByteToBits \/ BitsToByte

SpecOrder == InitOrder /\ [][NextOrder]_vars

\* the number whose bit k, for k from the given one up to 7, is set exactly
\* when the list has a true entry at index k
RECURSIVE ValueOfBits(_, _)
ValueOfBits(bits, k) ==
  IF k > 7 THEN 0
  ELSE (IF k \in DOMAIN bits /\ bits[k] THEN 2 ^ k ELSE 0)
       + ValueOfBits(bits, k + 1)

\* C21: the bit order is LSB-first in both directions: byteToBits(b) has
\* eight entries and entry k is true exactly when bit k (value 2^k) of b is
\* set, and bitsToByte(bits) is the byte whose bit k is set exactly when
\* bits[k] is true, an entry missing from a short list counting as 0
BitOrderIsLsbFirst ==
  ret # Undefined =>
    IF arg[1] = "byteToBits"
    THEN /\ DOMAIN ret[1] = 0..7
         /\ \A k \in 0..7 : ret[1][k] <=> ((arg[2] \div (2 ^ k)) % 2 = 1)
         /\ ValueOfBits(ret[1], 0) = arg[2]
    ELSE /\ ret[1] = ValueOfBits(arg[2], 0)
         /\ \A k \in 0..7 :
              ((ret[1] \div (2 ^ k)) % 2 = 1) <=>
                (k \in DOMAIN arg[2] /\ arg[2][k])

\* byteToBits was applied to 1 and gave a list with only entry 0 true
ByteToBitsLsbWitness ==
  /\ arg = <<"byteToBits", 1>>
  /\ ret # Undefined
  /\ ret[1][0] /\ ~ ret[1][7]

\* bitsToByte was applied to the four-entry list the robot builds for its
\* LEDs, [false, true, false, true], and gave 10
BitsToByteShortListWitness ==
  /\ arg[1] = "bitsToByte"
  /\ DOMAIN arg[2] = 0..3
  /\ arg[2][1] /\ arg[2][3] /\ ~ arg[2][0] /\ ~ arg[2][2]
  /\ ret = Def(10)

\* --------------------------------------------- the bump/wheel-drop packet
\* SpecBump: the parser of the packet with id 7 applied to every data byte
InitBump ==
  /\ ParserIdle
  /\ arg \in {<<7, <<b>>>> : b \in Bytes}
  /\ ret = Undefined

\* Packet.prototype.parse of the packet arg[1] on the bytes arg[2]
ParseBump ==
  /\ ret = Undefined
  /\ ~ ParseThrows(arg[1], arg[2])
  /\ ret' = Def(ParsePacket(arg[1], arg[2]))
  /\ UNCHANGED <<parserVars, robotVars, arg>>

SpecBump == InitBump /\ [][ParseBump]_vars

\* bit k (value 2^k) of the byte b is set
BitOf(b, k) == (b \div (2 ^ k)) % 2 = 1

\* C22: for every data byte b the bump/wheel-drop packet decodes to
\* bump.right = bit 0, bump.left = bit 1, wheel_drop.right = bit 2,
\* wheel_drop.left = bit 3, wheel_drop.caster = bit 4 of b, and nothing else:
\* bits 5..7 do not affect the result
BumpAndWheelDropBits ==
  ret # Undefined =>
    ret[1] = [bump |-> [right |-> BitOf(arg[2][1], 0),
                        left |-> BitOf(arg[2][1], 1)],
              wheel_drop |-> [right |-> BitOf(arg[2][1] % 32, 2),
                              left |-> BitOf(arg[2][1] % 32, 3),
                              caster |-> BitOf(arg[2][1] % 32, 4)]]

\* the byte 0xE9 (bits 7, 6, 5, 3 and 0) was decoded: right bumper and left
\* wheel drop only
BumpAndWheelDropWitness ==
  /\ arg = <<7, <<233>>>>
  /\ ret # Undefined
  /\ ret[1].bump.right /\ ~ ret[1].bump.left
  /\ ret[1].wheel_drop.left
  /\ ~ ret[1].wheel_drop.right /\ ~ ret[1].wheel_drop.caster

\* ------------------------------------------------------ integer decoding
\* SpecInt: bufferToInt applied to every Buffer of one or two bytes, signed
\* and unsigned
InitInt ==
  /\ ParserIdle
  /\ arg \in ({<<b>> : b \in Bytes} \union (Bytes \X Bytes)) \X BOOLEAN
  /\ ret = Undefined

\* misc.bufferToInt(arg[1], arg[2])
BufferToInt ==
  /\ ret = Undefined
  /\ ~ BufferToIntThrows(arg[1])
  /\ ret' = Def(bufferToInt(arg[1], arg[2]))
  /\ UNCHANGED <<parserVars, robotVars, arg>>

SpecInt == InitInt /\ [][BufferToInt]_vars

\* the big-endian number of one or two bytes
BigEndian(bytes) ==
  IF Len(bytes) = 1 THEN bytes[1] ELSE 256 * bytes[1] + bytes[2]

\* v is the two's-complement reading of the w-bit number u
TwosComplement(v, u, w) ==
  /\ v >= -(2 ^ (w - 1))
  /\ v < 2 ^ (w - 1)
  /\ (v - u) % (2 ^ w) = 0

\* C23: bufferToInt reads [hi, lo] big-endian, 256*hi + lo when unsigned and
\* its 16-bit two's-complement value when signed; one byte is that byte, read
\* as 8-bit two's complement when signed
BufferToIntIsBigEndian ==
  ret # Undefined =>
    IF arg[2]
    THEN TwosComplement(ret[1], BigEndian(arg[1]), 8 * Len(arg[1]))
    ELSE ret[1] = BigEndian(arg[1])

\* [0xFF, 0xD4] was read signed and gave -44
BufferToIntWitness == arg = <<<<255, 212>>, TRUE>> /\ ret = Def(-44)

\* [0x01, 0x2C] was read unsigned and gave 300
BufferToIntUnsignedReached == arg = <<<<1, 44>>, FALSE>> /\ ret = Def(300)

\* ----------------------------------------------------------------- scaling
\* a JavaScript number that results from a division: the quotient num / den
\* of two integers, or one of the non-finite values
Finite(n, d) == [finite |-> TRUE, num |-> n, den |-> d, name |-> "finite"]
NonFinite(name) == [finite |-> FALSE, num |-> 0, den |-> 0, name |-> name]

\* x / y on numbers: a zero divisor gives Infinity, -Infinity or NaN, never
\* an exception
Divide(x, y) ==
  CASE y # 0 -> Finite(x, y)
    [] y = 0 /\ x > 0 -> NonFinite("Infinity")
    [] y = 0 /\ x < 0 -> NonFinite("-Infinity")
    [] y = 0 /\ x = 0 -> NonFinite("NaN")

\* q * k for a quotient q and an integer k
Times(q, k) ==
  CASE q.finite -> Finite(q.num * k, q.den)
    [] ~ q.finite /\ (q.name = "NaN" \/ k = 0) -> NonFinite("NaN")
    [] ~ q.finite /\ q.name # "NaN" /\ k > 0 -> q
    [] ~ q.finite /\ q.name = "Infinity" /\ k < 0 -> NonFinite("-Infinity")
    [] ~ q.finite /\ q.name = "-Infinity" /\ k < 0 -> NonFinite("Infinity")

\* extend(defaults, options): a key the options lack keeps its default
Extended(option, default) == IF option = Undefined THEN default ELSE option[1]

scaleValue(rawValue, options) ==
  Times(Divide(rawValue,
               options.max_raw - Extended(options.min_raw, 0)),
        options.max_actual - Extended(options.min_actual, 0))

\* the options scaleValue is called with: the minima may be left out
ScaleOptions ==
  [min_raw : {Undefined} \union {Def(n) : n \in 0..2},
   max_raw : (0..2) \union {1023},
   min_actual : {Undefined, Def(0), Def(1)},
   max_actual : (0..2) \union {5}]

InitScale ==
  /\ ParserIdle
  /\ arg \in (-1..2) \X ScaleOptions
  /\ ret = Undefined

ScaleValue ==
  /\ ret = Undefined
  /\ ret' = Def(Returned(scaleValue(arg[1], arg[2])))
  /\ UNCHANGED <<parserVars, robotVars, arg>>

SpecScale == InitScale /\ [][ScaleValue]_vars

\* the raw range of the call is empty: max_raw equals min_raw
ZeroRawRange == arg[2].max_raw = Extended(arg[2].min_raw, 0)

\* C24: scaleValue called with max_raw equal to min_raw fails with a
\* DivisionByZero error and returns no value
ScaleFailsOnZeroRange ==
  (ret # Undefined /\ ZeroRawRange) =>
    (ret[1].threw /\ ret[1].error = "DivisionByZero")

\* what the code does on an empty raw range: it returns a non-finite number
ScaleReturnsNonFiniteOnZeroRange ==
  (ret # Undefined /\ ZeroRawRange) =>
    (~ ret[1].threw /\ ~ ret[1].value.finite)

\* a non-empty raw range gives the linear map raw * rangeActual / rangeRaw
ScaleIsLinearOtherwise ==
  (ret # Undefined /\ ~ ZeroRawRange) =>
    /\ ~ ret[1].threw /\ ret[1].value.finite
    /\ ret[1].value.num =
         arg[1] * (arg[2].max_actual - Extended(arg[2].min_actual, 0))
    /\ ret[1].value.den = arg[2].max_raw - Extended(arg[2].min_raw, 0)

\* --------------------------------------------------------- registry lookup
InitLookup ==
  /\ ParserIdle
  /\ arg \in Bytes
  /\ ret = Undefined

GetById ==
  /\ ret = Undefined
  /\ ret' = Def(getById(arg))
  /\ UNCHANGED <<parserVars, robotVars, arg>>

SpecLookup == InitLookup /\ [][GetById]_vars

\* the ids the device protocol defines a sensor packet for
ProtocolIds == (7..14) \union (17..42)

\* C25: a lookup returns a packet exactly for the ids 7..14 and 17..42 and
\* null for every other id of 0..255; the packet returned carries the id it
\* was looked up by, and no two packets of the registry share an id
LookupIsExact ==
  /\ ret # Undefined =>
       /\ ret[1] # Null <=> arg \in ProtocolIds
       /\ ret[1] # Null => ret[1][1].id = arg
  /\ \A j, k \in DOMAIN ALL_SENSOR_PACKETS :
       ALL_SENSOR_PACKETS[j].id = ALL_SENSOR_PACKETS[k].id => j = k

LookupFoundWitness ==
  arg = 17 /\ ret # Undefined /\ ret[1] # Null /\ ret[1][1].name = "infrared_byte"

LookupNullWitness == arg = 16 /\ ret = Def(Null)

\* ----------------------------------------------------------- decoder walk
\* the bytes of the payloads walked: the ids of two one-byte packets (7, 8),
\* of a two-byte packet (19), and a byte that is no packet id (5); every one
\* of them also occurs as a data byte
WalkBytes == {5, 7, 8, 19}

InitWalk ==
  /\ ParserIdle
  /\ arg \in SeqsUpTo(WalkBytes, MaxWalk)
  /\ ret = Undefined

\* the loop of parseSensorData run over a payload, up to the return of the
\* flat field map
WalkPayload ==
  /\ ret = Undefined
  /\ ret' = Def(ParseLoop(arg, 0, EmptyRaw))
  /\ UNCHANGED <<parserVars, robotVars, arg>>

SpecWalk == InitWalk /\ [][WalkPayload]_vars

\* the walk the claim describes: the byte at the position is a packet id,
\* exactly its width of following bytes is decoded and stored under the
\* packet, and the position moves past them; a payload that cannot supply
\* the width, or holds an unknown id at a position, has no result
RECURSIVE GroupWalk(_, _, _)
GroupWalk(P, pos, stored) ==
  IF pos >= Len(P) THEN Returned(stored)
  ELSE IF P[pos + 1] \notin ProtocolIds THEN Threw("unrecognized packet id")
  ELSE LET id == P[pos + 1]
           width == SENSOR_PACKETS_BY_ID[id].bytes
       IN IF pos + 1 + width > Len(P) THEN Threw("short packet")
          ELSE GroupWalk(P, pos + 1 + width,
                         Put(stored, id,
                             ParsePacket(id, SubSeq(P, pos + 2,
                                                    pos + 1 + width))))

\* the code's walk and the described walk end alike: both fail, or both
\* return the same field map
SameOutcome(code, described) ==
  /\ code.threw = described.threw
  /\ ~ code.threw => code.value = described.value

\* C26: the decoder walks a payload as consecutive groups of one id byte and
\* exactly byte_width data bytes, stores each decoded group under its
\* packet, never reads a data byte as an id, and ends for every payload
WalkIsByGroups ==
  ret # Undefined => SameOutcome(ret[1], GroupWalk(arg, 0, EmptyRaw))

\* the walk is by groups for every payload that does not end mid-packet
WalkIsByGroupsWhenComplete ==
  (ret # Undefined /\ ~ EndsMidPacket(arg, 0)) =>
    SameOutcome(ret[1], GroupWalk(arg, 0, EmptyRaw))

\* a payload whose data bytes are packet ids and unknown ids is walked
CompleteWalkReached ==
  /\ arg = <<19, 5, 8, 7, 19>>
  /\ ret # Undefined /\ ~ ret[1].threw
  /\ DOMAIN ret[1].value = {7, 19}

\* the names the packets are stored under are pairwise different
NamesAreDistinct ==
  \A j, k \in DOMAIN ALL_SENSOR_PACKETS :
    ALL_SENSOR_PACKETS[j].name = ALL_SENSOR_PACKETS[k].name => j = k

\* -------------------------------------------------------- command encoder
\* new Command(name, opcode, bytes): bytes is kept when it is a number and
\* is null otherwise
Command(name, opcode, bytes) == [name |-> name, opcode |-> opcode, bytes |-> bytes]

commands ==
  [Start |-> Command("start", 128, Def(0)),
   Safe |-> Command("safe", 131, Def(0)),
   Full |-> Command("full", 132, Def(0)),
   Demo |-> Command("demo", 136, Def(1)),
   Drive |-> Command("drive", 137, Def(4)),
   DriveDirect |-> Command("drive_direct", 145, Def(4)),
   LEDs |-> Command("leds", 139, Def(3)),
   Song |-> Command("song", 140, Null),
   PlaySong |-> Command("play_song", 141, Def(1)),
   Stream |-> Command("stream", 148, Null)]

\* an argument of _sendCommand: a number, an array of such values, or an
\* object that is neither
Num(n) == [array |-> FALSE, value |-> n, items |-> <<>>, object |-> <<>>]
Arr(items) == [array |-> TRUE, value |-> 0, items |-> items, object |-> <<>>]
Obj(o) == [array |-> FALSE, value |-> 0, items |-> <<>>, object |-> <<o>>]

\* _.flatten(array): the elements of the array and of the arrays nested in
\* it at any depth, in their order; what is no array stays an element
RECURSIVE flatten(_)
flatten(items) ==
  IF items = <<>> THEN <<>>
  ELSE (IF Head(items).array THEN flatten(Head(items).items)
        ELSE <<Head(items)>>)
       \o flatten(Tail(items))

\* an element stored into a Buffer: a number modulo 256; an object is
\* converted to the number NaN, which is stored as 0
Octet(element) == IF element.object # <<>> THEN 0 ELSE element.value % 256

\* new Buffer(array): every element is stored as an octet
Buffer(packet) == [k \in DOMAIN packet |-> Octet(packet[k])]

\* the packet with the opcode pushed behind the data bytes
Packet_OpcodeLast(command, args) == Append(flatten(args), Num(command.opcode))

\* var packet = _.flatten(arguments after the first);
\* packet.unshift(command.opcode)
Packet(command, args) == <<Num(command.opcode)>> \o flatten(args)

\* _sendCommand(command, ...args): the buffer handed to this.serial.write
sendCommand(command, args) == Buffer(Packet(command, args))

\* argument lists of n numbers and arrays in all, over the values of
\* ArgValues
ArgValues == {1, 255, 300}

RECURSIVE ArgListsOfSize(_)
ArgsOfSize(n) ==
  IF n = 1 THEN {Num(b) : b \in ArgValues} \union {Arr(<<>>)}
  ELSE {Arr(f) : f \in ArgListsOfSize(n - 1)}

ArgListsOfSize(n) ==
  IF n = 0 THEN {<<>>}
  ELSE UNION {{<<t>> \o f : t \in ArgsOfSize(k), f \in ArgListsOfSize(n - k)} :
                k \in 1..n}

ArgLists == UNION {ArgListsOfSize(n) : n \in 0..MaxNodes}

InitCommand ==
  /\ ParserIdle
  /\ arg \in {commands.Start, commands.LEDs, commands.Song} \X ArgLists
  /\ ret = Undefined

SendCommand ==
  /\ ret = Undefined
  /\ written' = <<sendCommand(arg[1], arg[2])>>
  /\ ret' = Def("this")
  /\ UNCHANGED <<parserVars, ledState, timers, readyListeners, port, arg>>

SpecCommand == InitCommand /\ [][SendCommand]_vars

\* the numbers of an argument list read from left to right, whatever the
\* nesting
RECURSIVE Leaves(_)
Leaves(args) ==
  IF args = <<>> THEN <<>>
  ELSE LET first == args[1]
       IN (IF first.array THEN Leaves(first.items) ELSE <<first.value>>)
          \o Leaves(SubSeq(args, 2, Len(args)))

AllBytes(values) == \A k \in DOMAIN values : values[k] \in Bytes

\* the depth of nesting of an argument list: 0 without arrays
RECURSIVE Depth(_)
Depth(args) ==
  IF args = <<>> THEN 0
  ELSE LET first == args[1]
           rest == Depth(SubSeq(args, 2, Len(args)))
           here == IF first.array THEN 1 + Depth(first.items) ELSE 0
       IN IF here > rest THEN here ELSE rest

\* C27: for every command and every argument list of bytes and nested byte
\* arrays, one buffer is written: the opcode followed by the argument bytes
\* in their order, nothing added, whatever width the command declares
CommandEncoding ==
  (ret # Undefined /\ AllBytes(Leaves(arg[2]))) =>
    /\ Len(written) = 1
    /\ written[1] = <<arg[1].opcode>> \o Leaves(arg[2])

\* a command of declared width 3 is sent with two bytes nested three deep
CommandEncodingWitness ==
  /\ ret # Undefined
  /\ arg[1] = commands.LEDs
  /\ Depth(arg[2]) = 3
  /\ written = <<<<139, 255, 1>>>>

\* a command of declared width 0 sent with a byte
CommandWidthUncheckedReached ==
  ret # Undefined /\ arg[1] = commands.Start /\ written = <<<<128, 255>>>>

\* ------------------------------------------------------------------ songs
MAX_SONG_LENGTH == 16

\* songs.START: pairs of a frequency in Hertz and a duration in milliseconds
START == <<<<Def(640), 100>>, <<Def(650), 100>>>>

\* Math.round(x / y) and Math.ceil(x / y) for x >= 0 and y > 0
RoundDiv(x, y) == (2 * x + y) \div (2 * y)
CeilDiv(x, y) == (x + y - 1) \div y

\* Math.round(69 + 12 * (Math.log(hz / 440) / Math.log(2))) for the
\* frequencies of the song played on connect (640, 650) and of the songs
\* sung below
MidiNote(hz) ==
  CASE hz = 262 -> 60
    [] hz = 440 -> 69
    [] hz = 640 -> 75
    [] hz = 650 -> 76
    [] hz = 880 -> 81

\* songs.toCreateFormat: [MIDI note, 64ths of a second]; a note that is not
\* a number is the pause 0
toCreateFormat(notes) ==
  [k \in DOMAIN notes |->
     <<IF notes[k][1] = Null THEN 0 ELSE MidiNote(notes[k][1][1]),
       RoundDiv(64 * notes[k][2], 1000)>>]

\* duration += song[j][1] over the notes of a segment
RECURSIVE SongDuration(_)
SongDuration(song) ==
  IF song = <<>> THEN 0 ELSE Head(song)[2] + SongDuration(Tail(song))

\* the while loop of sing: the timers it sets, in order, each with the
\* segment it will store and play and its delay
RECURSIVE SingFrom(_, _)
SingFrom(notes, cumulativeDelay) ==
  IF Len(notes) = 0 THEN <<>>
  ELSE <<[song |-> toCreateFormat(SubSeq(notes, 1, Min(MAX_SONG_LENGTH, Len(notes)))),
          delay |-> cumulativeDelay]>>
       \o SingFrom(SubSeq(notes, MAX_SONG_LENGTH + 1, Len(notes)),
                   cumulativeDelay
                   + CeilDiv(SongDuration(toCreateFormat(
                               SubSeq(notes, 1, Min(MAX_SONG_LENGTH, Len(notes)))))
                             * 1000, 64))

sing(notes) == SingFrom(notes, 0)

\* _storeAndPlaySong storing the song without requesting its playback
storeAndPlaySong_StoreOnly(notes) ==
  <<sendCommand(commands.Song,
                <<Num(0), Num(Len(notes)),
                  Arr([k \in DOMAIN notes |->
                         Arr(<<Num(notes[k][1]), Num(notes[k][2])>>)])>>)>>

\* _storeAndPlaySong(notes): the two buffers it writes
storeAndPlaySong(notes) ==
  <<sendCommand(commands.Song,
                <<Num(0), Num(Len(notes)),
                  Arr([k \in DOMAIN notes |->
                         Arr(<<Num(notes[k][1]), Num(notes[k][2])>>)])>>),
    sendCommand(commands.PlaySong, <<Num(0)>>)>>

\* ------------------------------------------------------------------- LEDs
\* !!v for a boolean or a number
NotNot(v) == v.n # 0

\* Math.round(Math.max(0, Math.min(255, 255 * x))) for x = x[1] / x[2]
\* with x[2] > 0
LedByte(x) ==
  IF x[1] <= 0 THEN 0
  ELSE IF x[1] >= x[2] THEN 255
  ELSE RoundDiv(255 * x[1], x[2])

\* setLEDs called without an argument
NoLeds ==
  [play |-> Undefined, advance |-> Undefined, power_intensity |-> Undefined,
   power_color |-> Undefined]

\* the missing values filled in with zero instead of the prior state
MergedLeds_Reset(leds, state) ==
  [play |-> IF leds.play = Undefined THEN JsNum(0)
            ELSE JsNum(IF NotNot(leds.play[1]) THEN 1 ELSE 0),
   advance |-> IF leds.advance = Undefined THEN JsNum(0)
               ELSE JsNum(IF NotNot(leds.advance[1]) THEN 1 ELSE 0),
   power_intensity |-> IF leds.power_intensity = Undefined THEN 0
                       ELSE LedByte(leds.power_intensity[1]),
   power_color |-> IF leds.power_color = Undefined THEN 0
                   ELSE LedByte(leds.power_color[1])]

\* the given values turned into bytes, the missing ones filled in from the
\* prior state
MergedLeds(leds, state) ==
  [play |-> IF leds.play = Undefined THEN state.play
            ELSE JsNum(IF NotNot(leds.play[1]) THEN 1 ELSE 0),
   advance |-> IF leds.advance = Undefined THEN state.advance
               ELSE JsNum(IF NotNot(leds.advance[1]) THEN 1 ELSE 0),
   power_intensity |-> IF leds.power_intensity = Undefined
                       THEN state.power_intensity
                       ELSE LedByte(leds.power_intensity[1]),
   power_color |-> IF leds.power_color = Undefined THEN state.power_color
                   ELSE LedByte(leds.power_color[1])]

\* [false, leds.play, false, leds.advance]
LedBits(leds) ==
  [k \in 0..3 |-> (k = 1 /\ NotNot(leds.play)) \/ (k = 3 /\ NotNot(leds.advance))]

\* the LEDs command sent for the merged values, which become the state
SendLeds(merged) ==
  [written |-> <<sendCommand(commands.LEDs,
                             <<Num(bitsToByte(LedBits(merged))),
                               Num(merged.power_color),
                               Num(merged.power_intensity)>>)>>,
   ledState |-> merged]

setLEDs(leds, state) == SendLeds(MergedLeds(leds, state))

\* safeMode: the Safe command, then setLEDs()
safeMode(state) ==
  [written |-> <<sendCommand(commands.Safe, <<>>)>> \o setLEDs(NoLeds, state).written,
   ledState |-> setLEDs(NoLeds, state).ledState]

\* ------------------------------------------------------------------ _init
\* the arguments of the Stream command: packets.length, packets
StreamArgs ==
  <<Num(Len(ALL_SENSOR_PACKETS)),
    Arr([k \in DOMAIN ALL_SENSOR_PACKETS |-> Num(ALL_SENSOR_PACKETS[k].id)])>>

\* the LED values _init sets
InitLeds ==
  [play |-> Def(JsBool(FALSE)), advance |-> Def(JsBool(FALSE)),
   power_intensity |-> Def(<<1, 1>>), power_color |-> Def(<<0, 1>>)]

\* _init writing Safe before Start
InitWrites_SafeFirst(state) ==
  safeMode(state).written
  \o <<sendCommand(commands.Start, <<>>)>>
  \o <<sendCommand(commands.Stream, StreamArgs)>>
  \o setLEDs(InitLeds, safeMode(state).ledState).written

\* the buffers _init writes: Start, safeMode(), Stream, setLEDs({...})
InitWrites(state) ==
  <<sendCommand(commands.Start, <<>>)>>
  \o safeMode(state).written
  \o <<sendCommand(commands.Stream, StreamArgs)>>
  \o setLEDs(InitLeds, safeMode(state).ledState).written

\* _init keeping the stored snapshot
InitSnapshot_Kept(stored) == stored

\* this._sensorData = null
InitSnapshot(stored) == Null

\* _init adding no listener for 'ready'
InitListeners_None(n) == n

\* this.serial.once('sensordata', this.emit.bind(this, 'ready'))
InitListeners(n) == n + 1

\* the serial port reports a connection: _init runs
Open ==
  /\ port = "closed"
  /\ readyListeners < MaxOpens
  /\ Len(timers) < MaxOpens
  /\ port' = "open"
  /\ sensorData' = InitSnapshot(sensorData)
  /\ written' = InitWrites(ledState)
  /\ ledState' = setLEDs(InitLeds, safeMode(ledState).ledState).ledState
  /\ timers' = timers \o sing(START)
  /\ readyListeners' = InitListeners(readyListeners)
  /\ before' = sensorData
  /\ scanned' = <<>>
  /\ decoded' = <<>>
  /\ events' = <<>>
  /\ thrown' = FALSE
  /\ UNCHANGED <<buffer, pending, lead, frame, got, arg, ret>>

\* the serial port is closed; the robot has no handler for it
Close ==
  /\ port = "open"
  /\ port' = "closed"
  /\ written' = <<>>
  /\ before' = sensorData
  /\ scanned' = <<>>
  /\ decoded' = <<>>
  /\ events' = <<>>
  /\ thrown' = FALSE
  /\ UNCHANGED <<buffer, sensorData, pending, lead, frame, got, arg, ret,
                 ledState, timers, readyListeners>>

\* a timer of sing() runs _storeAndPlaySong; a timer set earlier with a
\* delay that is not longer runs first
TimerFires ==
  \E k \in DOMAIN timers :
    /\ \A j \in 1..(k - 1) : timers[j].delay > timers[k].delay
    /\ written' = storeAndPlaySong(timers[k].song)
    /\ timers' = SubSeq(timers, 1, k - 1) \o SubSeq(timers, k + 1, Len(timers))
    /\ before' = sensorData
    /\ scanned' = <<>>
    /\ decoded' = <<>>
    /\ events' = <<>>
    /\ thrown' = FALSE
    /\ UNCHANGED <<buffer, sensorData, pending, lead, frame, got, arg, ret,
                   ledState, readyListeners, port>>

\* the frames the robot streams while the port is open: nothing active,
\* both bumpers pressed, a virtual wall, a frame without the OI mode packet,
\* a wheel drop with a button pressed, and a frame that ends in a distance
\* packet without bytes
RobotPayloads ==
  {QuietPayload,
   SensorPayload(3, NoFlags, 0, 255, 0, <<35, 1>>),
   SensorPayload(0, [NoFlags EXCEPT ![6] = 1], 0, 255, 0, <<35, 2>>),
   SensorPayload(0, NoFlags, 0, 255, 0, <<>>),
   SensorPayload(8, NoFlags, 0, 255, 4, <<35, 3>>),
   QuietPayload \o <<19>>}

FeedRobot ==
  /\ port = "open"
  /\ \E P \in RobotPayloads : ParseSerialData(BuildFrame(Len(P), P))
  /\ UNCHANGED <<pending, lead, frame, got>>

NextRobot == Open \/ Close \/ FeedRobot \/ TimerFires

SpecRobot == Init /\ [][NextRobot]_vars

\* ------------------------------------------- claims about the connection
\* the step is a call of the parser (it scanned bytes) that decoded a frame
FeedDecoded == scanned' # <<>> /\ PassDecoded'

\* the step is the run of _init: the port goes from closed to open
OpenStep == port = "closed" /\ port' = "open"

\* an open took place and no frame has been decoded since
AwaitingFirstFrame == port = "open" /\ readyListeners > 0

\* C28: every open clears the stored snapshot, and the first frame decoded
\* after an open emits no individual, aggregate or 'change' event
OpenSuppressesDiff ==
  [][/\ OpenStep => sensorData' = Null
     /\ (AwaitingFirstFrame /\ FeedDecoded) =>
          CountNamed(events', DiffEventNames) = 0]_vars

\* the frame with both bumpers pressed is the first one decoded after a
\* second open: both song timers are pending, and one listener only was
\* left, so a frame was decoded, and its snapshot stored, before that open
ReopenWitness ==
  /\ Len(timers) = 2
  /\ CountNamed(events, {"ready"}) = 1
  /\ decoded = <<SensorPayload(3, NoFlags, 0, 255, 0, <<35, 1>>)>>
  /\ PassDecoded
  /\ CountNamed(events, DiffEventNames) = 0
  /\ sensorData = Def(Snapshot)

\* the ids of a set in ascending order
RECURSIVE Ascending(_)
Ascending(S) ==
  IF S = {} THEN <<>>
  ELSE LET least == CHOOSE x \in S : \A y \in S : x <= y
       IN <<least>> \o Ascending(S \ {least})

\* the Stream command that asks for every registered packet
StreamAll == <<148, Cardinality(ProtocolIds)>> \o Ascending(ProtocolIds)

\* Start is written first, Safe after it, the Stream command after both
StartSafeStream(writes) ==
  /\ writes # <<>>
  /\ writes[1] = <<128>>
  /\ \E j, k \in DOMAIN writes :
       /\ 1 < j /\ j < k
       /\ writes[j] = <<131>>
       /\ writes[k] = StreamAll

\* C29: on every open the first command written is Start (128), Safe (131)
\* is written after it, and Stream (148) with the count and the ascending
\* ids of all registered packets after both
InitialisationOrder == [][OpenStep => StartSafeStream(written')]_vars

\* the writes of a second open: the LEDs command sent by safeMode carries
\* the power intensity the first open has set
SecondOpenWitness ==
  written = <<<<128>>, <<131>>, <<139, 0, 0, 255>>, StreamAll,
              <<139, 0, 0, 255>>>>

\* the writes of the first open
FirstOpenReached ==
  written = <<<<128>>, <<131>>, <<139, 0, 0, 0>>, StreamAll,
              <<139, 0, 0, 255>>>>

\* C30: 'ready' is emitted by no step but the call of the parser that
\* decodes the first frame after an open, there once for every open that
\* awaited it, and not again by later frames of the connection
ReadyOncePerOpen ==
  [][/\ CountNamed(events', {"ready"}) > 0 => (port = "open" /\ FeedDecoded)
     /\ FeedDecoded =>
          /\ CountNamed(events', {"ready"}) = readyListeners
          /\ readyListeners' = 0
          /\ CountNamed(events', {"ready"}) > 0 <=> sensorData = Null
     /\ OpenStep => readyListeners' = readyListeners + 1
     /\ ~ FeedDecoded /\ ~ OpenStep => readyListeners' = readyListeners]_vars

\* the first frame decoded after an open emitted 'ready', once, in front of
\* the robot's 'sensordata'
ReadyWitness ==
  /\ Len(events) = 2
  /\ events[1].name = "ready"
  /\ events[2].name = "sensordata"
  /\ events[1].data = events[2].data
  /\ readyListeners = 0

\* a later frame of the same connection emitted diff events and no 'ready'
LaterFrameReached ==
  /\ CountNamed(events, {"bump:both"}) = 1
  /\ CountNamed(events, {"ready"}) = 0
  /\ PassDecoded

\* two opens awaited the frame: 'ready' is emitted twice by it
TwoOpensReached == CountNamed(events, {"ready"}) = 2

\* ---------------------------------------------------------- LED functions
\* _toggleLED(name, enable): enable defaults to the inverse of the stored
\* value; setLEDs is called with state[name] = !!enable
toggleLED(name, enable, state) ==
  setLEDs([NoLeds EXCEPT ![name] =
             Def(JsBool(IF enable = Undefined THEN ~ NotNot(state[name])
                        ELSE NotNot(enable[1])))],
          state)

\* setPowerLED(intensity, color): the intensity defaults to 0, the colour is
\* passed on as given
setPowerLED(intensity, color, state) ==
  setLEDs([NoLeds EXCEPT
             !.power_intensity = Def(IF intensity = Undefined THEN <<0, 1>>
                                     ELSE intensity[1]),
             !.power_color = color],
          state)

\* the values the LED functions are called with: booleans, and numbers
\* below, inside and above the range 0..1, each possibly left out
LedFlags == {Undefined, Def(JsBool(FALSE)), Def(JsBool(TRUE))}
LedPowers ==
  {Undefined, Def(<<-1, 2>>), Def(<<0, 1>>), Def(<<1, 2>>), Def(<<1, 1>>),
   Def(<<3, 2>>)}

\* what a call of a function of the robot leaves alone besides the LED
\* state
callVars == <<parserVars, ret, timers, readyListeners, port>>

\* one call of an LED function; the call is kept in arg
SetLEDs ==
  \E leds \in [play : LedFlags, advance : LedFlags,
               power_intensity : LedPowers, power_color : LedPowers] :
    /\ arg' = <<"setLEDs", leds>>
    /\ written' = setLEDs(leds, ledState).written
    /\ ledState' = setLEDs(leds, ledState).ledState
    /\ UNCHANGED callVars

SetPowerLED ==
  \E intensity \in LedPowers, color \in LedPowers :
    /\ arg' = <<"setPowerLED", intensity, color>>
    /\ written' = setPowerLED(intensity, color, ledState).written
    /\ ledState' = setPowerLED(intensity, color, ledState).ledState
    /\ UNCHANGED callVars

ToggleLED ==
  \E name \in {"play", "advance"}, enable \in LedFlags :
    /\ arg' = <<"toggleLED", name, enable>>
    /\ written' = toggleLED(name, enable, ledState).written
    /\ ledState' = toggleLED(name, enable, ledState).ledState
    /\ UNCHANGED callVars

NextLeds == SetLEDs \/ SetPowerLED \/ ToggleLED

SpecLeds == Init /\ [][NextLeds]_vars

\* the LED byte of a state: bit 1 for play, bit 3 for advance
LedByteOf(state) ==
  (IF state.play.n # 0 THEN 2 ELSE 0) + (IF state.advance.n # 0 THEN 8 ELSE 0)

\* the LEDs command built from a state
LedsCommandOf(state) ==
  <<139, LedByteOf(state), state.power_color, state.power_intensity>>

LedFields == {"play", "advance", "power_intensity", "power_color"}

\* the LED byte with the bit of the named LED flipped
Flipped(byte, name) ==
  IF name = "play"
  THEN (IF (byte \div 2) % 2 = 1 THEN byte - 2 ELSE byte + 2)
  ELSE (IF (byte \div 8) % 2 = 1 THEN byte - 8 ELSE byte + 8)

\* C31: setLEDs leaves every field it is not given unchanged in the stored
\* state and sends the LEDs command (139) built from the merged state it
\* stores; setPowerLED without a colour leaves the colour unchanged; a
\* toggle without a value flips the LED's bit of the byte sent last, so two
\* toggles restore it
LedStateMerge ==
  [][/\ Len(written') = 1 /\ written'[1] = LedsCommandOf(ledState')
     /\ arg'[1] = "setLEDs" =>
          \A f \in LedFields : arg'[2][f] = Undefined => ledState'[f] = ledState[f]
     /\ (arg'[1] = "setPowerLED" /\ arg'[3] = Undefined) =>
          /\ ledState'.power_color = ledState.power_color
          /\ written'[1][3] = ledState.power_color
          /\ ledState'.play = ledState.play
          /\ ledState'.advance = ledState.advance
     /\ (arg'[1] = "toggleLED" /\ arg'[3] = Undefined /\ written # <<>>) =>
          /\ written'[1][2] = Flipped(written[1][2], arg'[2])
          /\ written'[1][3] = written[1][3]
          /\ written'[1][4] = written[1][4]]_vars

\* the play LED was toggled on top of a lit advance LED and a set power LED
ToggleWitness ==
  /\ arg = <<"toggleLED", "play", Undefined>>
  /\ written = <<<<139, 10, 128, 255>>>>

\* setPowerLED(0.5) kept the colour set before
PowerLedKeepsColourReached ==
  /\ arg = <<"setPowerLED", Def(<<1, 2>>), Undefined>>
  /\ written = <<<<139, 0, 255, 128>>>>

\* ------------------------------------------------------------------ drive
\* Math.min(-max, Math.max(max, v)): the bounds the wrong way round
Clamp_Inverted(v, max) ==
  LET upper == IF v > max THEN v ELSE max
  IN IF upper < 0 - max THEN upper ELSE 0 - max

\* Math.max(-max, Math.min(max, v))
Clamp(v, max) ==
  LET lower == IF v < max THEN v ELSE max
  IN IF lower > 0 - max THEN lower ELSE 0 - max

\* data.writeInt16BE(v, offset) for an integer v of -32768..32767: the two
\* bytes written
Int16BE(v) == <<((v + 65536) % 65536) \div 256, ((v + 65536) % 65536) % 256>>

\* x || 0 for a number or undefined
OrZero(x) == IF x = Undefined THEN 0 ELSE x[1]

\* drive(velocity, radius) with a number for the velocity; data.toJSON() is
\* the array of the four bytes of the buffer
driveRadius(velocity, radius) ==
  <<sendCommand(commands.Drive,
                <<Arr([k \in 1..4 |->
                         Num((Int16BE(Clamp(velocity, 500))
                              \o Int16BE(Clamp(OrZero(radius), 2000)))[k])])>>)>>

\* drive({left: ..., right: ...})
driveDirect(velocity) ==
  <<sendCommand(commands.DriveDirect,
                <<Arr([k \in 1..4 |->
                         Num((Int16BE(Clamp(OrZero(velocity.left), 500))
                              \o Int16BE(Clamp(OrZero(velocity.right), 500)))[k])])>>)>>

\* velocities and radii at, inside and outside the limits
Velocities == {-600, -501, -500, -499, -256, -1, 0, 1, 255, 256, 499, 500, 501, 600}
Radii == {-32768, -2001, -2000, -1999, -1, 0, 1, 1999, 2000, 2001, 32767}

DriveRadius ==
  \E velocity \in Velocities, radius \in {Undefined} \union {Def(r) : r \in Radii} :
    /\ arg' = <<"drive", velocity, radius>>
    /\ written' = driveRadius(velocity, radius)
    /\ UNCHANGED <<callVars, ledState>>

DriveDirect ==
  \E left \in {Undefined} \union {Def(v) : v \in Velocities},
     right \in {Undefined} \union {Def(v) : v \in Velocities} :
    /\ arg' = <<"driveDirect", left, right>>
    /\ written' = driveDirect([left |-> left, right |-> right])
    /\ UNCHANGED <<callVars, ledState>>

NextDrive == DriveRadius \/ DriveDirect

SpecDrive == Init /\ [][NextDrive]_vars

\* v limited to -max..max
Limited(v, max) == IF v < 0 - max THEN 0 - max ELSE IF v > max THEN max ELSE v

\* the integer two bytes stand for as a big-endian 16-bit two's complement
Signed16(hi, lo) ==
  IF 256 * hi + lo >= 32768 THEN 256 * hi + lo - 65536 ELSE 256 * hi + lo

\* C32: drive with a numeric velocity writes 137 and four bytes, the
\* velocity limited to -500..500 and the radius to -2000..2000 as big-endian
\* 16-bit two's-complement pairs, values inside the limits unchanged;
\* drive({left, right}) writes 145 with both wheel velocities limited to
\* -500..500 in the same encoding
DriveEncoding ==
  /\ (arg # Undefined /\ arg[1] = "drive") =>
       /\ Len(written) = 1 /\ Len(written[1]) = 5
       /\ written[1][1] = 137
       /\ AllBytes(written[1])
       /\ Signed16(written[1][2], written[1][3]) = Limited(arg[2], 500)
       /\ Signed16(written[1][4], written[1][5]) = Limited(OrZero(arg[3]), 2000)
  /\ (arg # Undefined /\ arg[1] = "driveDirect") =>
       /\ Len(written) = 1 /\ Len(written[1]) = 5
       /\ written[1][1] = 145
       /\ AllBytes(written[1])
       /\ {Signed16(written[1][2], written[1][3]),
           Signed16(written[1][4], written[1][5])}
          = {Limited(OrZero(arg[2]), 500), Limited(OrZero(arg[3]), 500)}

\* a negative velocity inside the limits with a radius beyond them
DriveWitness ==
  /\ arg = <<"drive", -256, Def(2001)>>
  /\ written = <<<<137, 255, 0, 7, 208>>>>

\* the wheels are written left first
DriveDirectReached ==
  /\ arg = <<"driveDirect", Def(600), Def(-1)>>
  /\ written = <<<<145, 1, 244, 255, 255>>>>

\* ------------------------------------------------------------------ demos
\* new Demo(name, id)
Demo(name, id) == [name |-> name, id |-> id]

demos ==
  [Abort |-> Demo("abort", 255),
   Cover |-> Demo("cover ", 0),
   CoverAndDock |-> Demo("cover_and_dock", 1),
   SpotCover |-> Demo("spot_cover", 2),
   Mouse |-> Demo("mouse", 3),
   FigureEight |-> Demo("figure_eight", 4),
   Wimp |-> Demo("wimp", 5),
   Home |-> Demo("home", 6),
   Tag |-> Demo("tag", 7),
   Pachelbel |-> Demo("pachelbel", 8),
   Banjo |-> Demo("banjo", 9)]

\* demo(demoId): the argument is sent as it is given
demo(demoId) == <<sendCommand(commands.Demo, <<demoId>>)>>

\* dock: this.demo(demos.CoverAndDock), the Demo object
dock == demo(Obj(demos.CoverAndDock))

\* halt: this.drive(0, 0), then this.demo(demos.Abort)
halt == driveRadius(0, Def(0)) \o demo(Obj(demos.Abort))

DemoCall ==
  \E id \in Bytes :
    /\ arg' = <<"demo", id>>
    /\ written' = demo(Num(id))
    /\ UNCHANGED <<callVars, ledState>>

Dock ==
  /\ arg' = <<"dock">>
  /\ written' = dock
  /\ UNCHANGED <<callVars, ledState>>

Halt ==
  /\ arg' = <<"halt">>
  /\ written' = halt
  /\ UNCHANGED <<callVars, ledState>>

NextDemo == DemoCall \/ Dock \/ Halt

SpecDemo == Init /\ [][NextDemo]_vars

\* the Demo commands among the buffers written
DemoCommands == SelectSeq(written, LAMBDA w : w[1] = 136)

\* C33: the Demo command written by dock() is 136 followed by the id 1 of
\* cover-and-dock, the one written by halt() is 136 followed by the id 255
\* of abort
DemoCarriesId ==
  /\ arg = <<"dock">> => DemoCommands = <<<<136, 1>>>>
  /\ arg = <<"halt">> => DemoCommands = <<<<136, 255>>>>

\* what the code writes: the Demo object is no number, its byte is 0, the
\* id of the cover demo
DemoObjectSentAsZero ==
  /\ arg = <<"dock">> => written = <<<<136, 0>>>>
  /\ arg = <<"halt">> => written = <<<<137, 0, 0, 0, 0>>, <<136, 0>>>>

\* demo called with a number sends that number
DemoNumberIsSent ==
  (arg # Undefined /\ arg[1] = "demo") => written = <<<<136, arg[2]>>>>

\* ------------------------------------------------------------------- sing
\* the caller's array after sing(notes) spliced it in place
NotesAfterSing_InPlace(notes) == <<>>

\* the caller's array after sing(notes): the loop splices notes.slice(), a
\* copy, so the array passed in keeps its elements
NotesAfterSing(notes) == notes

\* the songs sung: n notes whose frequencies (null for a pause) and
\* durations in milliseconds repeat with period 6 from an offset p, so that
\* notes 16 apart differ; the durations give 0, 6, 16 and 320 64ths, and
\* the song of offset 3 has short notes only, which all last 0 64ths
SongFrequencies == <<Null, Def(262), Def(440), Def(640), Def(650), Def(880)>>
SongDurations == <<5, 100, 250, 5000, 100, 5>>

SongOf(n, p) ==
  [k \in 1..n |-> <<SongFrequencies[((k + p) % 6) + 1],
                    IF p = 3 THEN 5 ELSE SongDurations[((k + 2 * p) % 6) + 1]>>]

Songs == {SongOf(n, p) : n \in 0..MaxNotes, p \in 0..3}

\* sing(notes) called while no segment of an earlier call is pending
SingAlone ==
  /\ timers = <<>>
  /\ \E notes \in Songs :
       /\ arg' = <<"sing", notes, NotesAfterSing(notes)>>
       /\ timers' = sing(notes)
       /\ written' = <<>>
       /\ UNCHANGED <<parserVars, ret, ledState, readyListeners, port>>

NextSing == SingAlone \/ TimerFires

SpecSing == Init /\ [][NextSing]_vars

\* the songs of a list of timers, one after the other
RECURSIVE SongsOf(_)
SongsOf(ts) == IF ts = <<>> THEN <<>> ELSE Head(ts).song \o SongsOf(Tail(ts))

\* the bytes of a list of note pairs
RECURSIVE PairBytes(_)
PairBytes(song) ==
  IF song = <<>> THEN <<>>
  ELSE <<Head(song)[1] % 256, Head(song)[2] % 256>> \o PairBytes(Tail(song))

\* the step is a call of sing
SingStep == arg'[1] = "sing" /\ timers = <<>> /\ written' = <<>>

\* the step runs a timer
TimerStep == Len(timers') = Len(timers) - 1

\* C34: sing(notes) schedules consecutive segments of at most 16 note pairs
\* that together are the notes in their order, none dropped or repeated,
\* with non-decreasing delays, and leaves the caller's array as it was;
\* every Song command written carries at most 16 pairs and their number as
\* its length byte, and the segments are written in the order of the notes
SingSegments ==
  [][/\ SingStep =>
          /\ SongsOf(timers') = toCreateFormat(arg'[2])
          /\ \A k \in DOMAIN timers' :
               /\ Len(timers'[k].song) >= 1
               /\ Len(timers'[k].song) <= 16
               /\ k > 1 => /\ timers'[k - 1].delay <= timers'[k].delay
                           /\ Len(timers'[k - 1].song) = 16
          /\ arg'[3] = arg'[2]
     /\ TimerStep =>
          /\ timers' = Tail(timers)
          /\ Len(written') = 2
          /\ written'[1] = <<140, 0, Len(timers[1].song)>>
                           \o PairBytes(timers[1].song)
          /\ written'[1][3] <= 16
          /\ Len(written'[1]) = 3 + 2 * written'[1][3]
          /\ written'[2] = <<141, 0>>]_vars

\* the last of the three segments of a song of 34 notes is written
SingWitness ==
  /\ arg # Undefined /\ arg[1] = "sing" /\ Len(arg[2]) = 34
  /\ timers = <<>>
  /\ Len(written) = 2
  /\ written[1][3] = 2
  /\ Len(written[1]) = 7

\* two segments with the same delay are pending: the first one lasts no
\* 64th of a second
EqualDelaysReached ==
  Len(timers) >= 2 /\ timers[1].delay = timers[2].delay

\* ------------------------------------------- several frames in one buffer
\* buf holds two complete well-formed frames, one behind the other
TwoFrames(buf) ==
  \E i \in FrameStarts(buf), j \in FrameStarts(buf) : FrameEnd(buf, i) <= j

\* the notifications of the pass that say what became of a frame
Notified ==
  SelectSeq(events, LAMBDA e : e.name \in {"sensordata", "badpacket"})

\* C35: when the buffer a feed scans holds two or more complete frames that
\* do not overlap, the feed extracts the one that starts last and no other:
\* it decodes that payload alone, notifies 'sensordata' or 'badpacket' once,
\* and keeps only the bytes behind that frame, so that the bytes of the
\* earlier frames are in no buffer a later feed scans
OnlyLastFrameExtracted ==
  TwoFrames(scanned) =>
    /\ decoded =
         <<SubSeq(scanned, Greatest(FrameStarts(scanned)) + 3,
                  FrameEnd(scanned, Greatest(FrameStarts(scanned))) - 1)>>
    /\ buffer =
         SubSeq(scanned,
                FrameEnd(scanned, Greatest(FrameStarts(scanned))) + 1,
                Len(scanned))
    /\ Len(Notified) = 1

\* two different frames were fed in one chunk to an empty buffer: the
\* payload of the second was decoded, and nothing is left
TwoFramesWitness ==
  /\ TwoFrames(scanned)
  /\ frame # <<>>
  /\ Len(scanned) > Len(frame)
  /\ SubSeq(scanned, 1, Len(frame)) = frame
  /\ SubSeq(scanned, Len(frame) + 1, Len(scanned)) # frame
  /\ decoded = <<SubSeq(scanned, Len(frame) + 3, Len(scanned) - 1)>>
  /\ buffer = <<>>
  /\ Notified # <<>> /\ Notified[1].name = "sensordata"

\* the frame extracted behind another one was reported as a bad packet
TwoFramesBadPacketReached ==
  /\ TwoFrames(scanned)
  /\ Notified # <<>> /\ Notified[1].name = "badpacket"


\* C36: after every feed, no index of the remaining buffer starts a complete
\* candidate that passes frame validation
NoFrameStaysBuffered ==
  \A i \in 0..Len(buffer) :
    ~ (/\ AtIs(buffer, i, 19)
       /\ i + 1 < Len(buffer)
       /\ EndIndex(buffer, i) <= Len(buffer)
       /\ WellFormedFrame(SliceJS(buffer, i, EndIndex(buffer, i))))

\* a feed extracted a frame and left bytes that hold the header byte behind
\* it in the buffer
BufferedHeaderWitness ==
  /\ decoded # <<>>
  /\ Len(buffer) >= 2
  /\ \E i \in 0..(Len(buffer) - 2) : AtIs(buffer, i, 19)

\* a feed found no frame in a buffer that holds the header byte, and kept it
NothingExtractedReached ==
  /\ decoded = <<>>
  /\ scanned # <<>>
  /\ buffer = scanned
  /\ \E i \in 0..(Len(buffer) - 2) : AtIs(buffer, i, 19)


\* -------------------------------------------------------- OI mode events
ModeNames == {"off", "passive", "safe", "full"}

\* the individual mode events of the pass
ModeEvents ==
  SelectSeq(events,
            LAMBDA e : e.name \in {"mode:off", "mode:passive", "mode:safe",
                                    "mode:full"})

\* the aggregate mode events of the pass
AggregateModeEvents == SelectSeq(events, LAMBDA e : e.name = "mode")

\* the mode flags of a snapshot that are true
ModesSet(snapshot) ==
  {m \in ModeNames :
     /\ snapshot.state.mode # Undefined
     /\ snapshot.state.mode[1][m]}

\* C37: at most one of state.mode.off, passive, safe and full is true in a
\* decoded snapshot, and a pass emits at most one individual mode event,
\* together with exactly one 'mode' event when it emits one
OneModeAtATime ==
  /\ sensorData # Null => Cardinality(ModesSet(sensorData[1])) <= 1
  /\ Len(ModeEvents) <= 1
  /\ Len(ModeEvents) = 1 => Len(AggregateModeEvents) = 1

\* the mode went from passive to safe: 'mode:safe' and 'mode' were emitted
ModeChangeWitness ==
  /\ before # Null /\ ModesSet(before[1]) = {"passive"}
  /\ sensorData # Null /\ ModesSet(sensorData[1]) = {"safe"}
  /\ Len(ModeEvents) = 1 /\ ModeEvents[1].name = "mode:safe"
  /\ Len(AggregateModeEvents) = 1

\* a snapshot decoded from mode byte 4 holds a mode with no flag set
NoModeSetReached ==
  /\ sensorData # Null
  /\ sensorData[1].state.mode # Undefined
  /\ ModesSet(sensorData[1]) = {}
  /\ before # Null /\ ModesSet(before[1]) = {"passive"}
  /\ ModeEvents = <<>>


\* ------------------------------------------- the order of a comparison pass
\* this._sensorData = newSensorData, as an entry of the effects of the
\* handler
Store(newSensorData) == Event("this._sensorData", newSensorData)

\* _handleSensorData storing the snapshot before it compares
HandlerEffects_StoreFirst(stored, newSensorData) ==
  <<Store(newSensorData)>>
  \o handleSensorData(stored, newSensorData).events

\* the effects of _handleSensorData(newSensorData) in program order: the
\* events of the detectors in call order, 'change', and last the
\* assignment to this._sensorData, which a throw of a detector skips
HandlerEffects(stored, newSensorData) ==
  handleSensorData(stored, newSensorData).events
  \o (IF handleSensorData(stored, newSensorData).threw
      THEN <<>> ELSE <<Store(newSensorData)>>)

\* the individual events of the groups that have an aggregate event
Individuals ==
  [bump |-> {"bump:right", "bump:left", "bump:both"},
   button |-> {"button:advance", "button:play"},
   cliff |-> {"cliff:left", "cliff:front_left", "cliff:front_right",
              "cliff:right"},
   mode |-> {"mode:off", "mode:passive", "mode:safe", "mode:full"},
   overcurrent |-> {"overcurrent:wheel:left", "overcurrent:wheel:right",
                    "overcurrent:lowsidedriver:0",
                    "overcurrent:lowsidedriver:1",
                    "overcurrent:lowsidedriver:2"},
   wheeldrop |-> {"wheeldrop:right", "wheeldrop:left", "wheeldrop:caster"}]

\* a comparison pass ran in the last feed: a frame was decoded while a
\* snapshot was stored
PassRan ==
  /\ decoded # <<>>
  /\ before # Null
  /\ ~ parseSensorData(decoded[1]).threw

\* the effects of the handler in the last feed
PassEffects == HandlerEffects(before, parseSensorData(decoded[1]).value)

\* fx is in the order of the pass: the individual events of a group come
\* before its aggregate event, 'change' comes after every other event, and
\* the store comes last
InPassOrder(fx) ==
  /\ \A g \in DOMAIN Individuals : \A i \in DOMAIN fx, j \in DOMAIN fx :
       fx[i].name \in Individuals[g] /\ fx[j].name = g => i < j
  /\ \A i \in DOMAIN fx, j \in DOMAIN fx :
       /\ fx[j].name = "change"
       /\ fx[i].name \notin {"change", "this._sensorData"}
       => i < j
  /\ \A i \in DOMAIN fx : fx[i].name = "this._sensorData" => i = Len(fx)

\* the events of fx are the first events of the feed, and the stored
\* snapshot is the new one exactly when fx stores it
IsPassOf(fx) ==
  /\ SelectSeq(fx, LAMBDA e : e.name # "this._sensorData")
       = SubSeq(events, 1,
                Len(SelectSeq(fx, LAMBDA e : e.name # "this._sensorData")))
  /\ IF \E i \in DOMAIN fx : fx[i].name = "this._sensorData"
     THEN sensorData = Def(parseSensorData(decoded[1]).value)
     ELSE sensorData = before

\* C38: in a comparison pass every individual event of a group is emitted
\* before the aggregate event of the group, 'change' after every individual
\* and aggregate event, and the stored snapshot is replaced after all of
\* them
PassOrder == PassRan => InPassOrder(PassEffects) /\ IsPassOf(PassEffects)

\* a pass emitted the events of several groups, then 'change', and replaced
\* the snapshot
PassOrderWitness ==
  /\ PassRan
  /\ sensorData # before
  /\ \E i \in DOMAIN events, j \in DOMAIN events, k \in DOMAIN events :
       /\ events[i].name = "bump:both"
       /\ events[j].name = "wheeldrop"
       /\ events[k].name = "change"
       /\ i < j /\ j < k
  /\ PassEffects[Len(PassEffects)].name = "this._sensorData"

\* a pass emitted events and threw before it stored the snapshot
PassThrewReached ==
  /\ PassRan
  /\ events # <<>> /\ events[1].name = "bump:right"
  /\ \A i \in DOMAIN PassEffects : PassEffects[i].name # "this._sensorData"


\* ------------------------------------------- songs among other commands
\* the songs of the overlapping calls: one, two and three segments
OverlapSongs == {SongOf(1, 0), SongOf(17, 3), SongOf(MaxNotes, 0)}

\* sing(notes) called while segments of earlier calls may be pending
SingAgain ==
  \E notes \in OverlapSongs :
    /\ Len(timers) + Len(sing(notes)) <= MaxPending
    /\ arg' = <<"sing", notes, NotesAfterSing(notes)>>
    /\ timers' = timers \o sing(notes)
    /\ written' = <<>>
    /\ UNCHANGED <<parserVars, ret, ledState, readyListeners, port>>

NextSong == SingAgain \/ TimerFires \/ Dock \/ Halt

SpecSong == Init /\ [][NextSong]_vars

\* C39: every Song command written (140, slot 0) is followed at once by the
\* PlaySong command of slot 0 (141), whatever calls and timers ran before
SongThenPlay ==
  \A k \in DOMAIN written :
    written[k][1] = 140 =>
      /\ written[k][2] = 0
      /\ k < Len(written)
      /\ written[k + 1] = <<141, 0>>

\* a segment is written while segments of two calls of sing are pending,
\* the later call's first segment behind a later segment of the earlier
\* call, and halt() was called since
OverlapWitness ==
  /\ written # <<>> /\ written[1][1] = 140
  /\ arg = <<"halt">>
  /\ \E k \in 1..(Len(timers) - 1) : timers[k].delay > timers[k + 1].delay

\* a timer of the later call ran before a pending timer of the earlier call
LaterCallFirstReached ==
  /\ written # <<>> /\ written[1][1] = 140
  /\ timers # <<>> /\ timers[1].delay > 0
  /\ Len(timers) = MaxPending - 1
====
